---- MODULE Spec2Model ----
(***************************************************************************)
(* A model of the shpeegle-reader EPUB core: the path helpers, the package *)
(* and navigation parser (parseStructure), the content normalizer          *)
(* (loadSpineItem / loadChapter) and the two Reader components that drive  *)
(* them (whole-book mode in Reader.jsx, per-chapter mode in Library.jsx).  *)
(*                                                                         *)
(* Text is modelled as a sequence of tokens.  A path is a sequence over    *)
(* "/", ".", "#" and name tokens (a name token stands for a run of other   *)
(* characters), so that splitting on "/" and comparing a segment with "."  *)
(* or ".." are computed, not assumed.                                      *)
(***************************************************************************)
EXTENDS Integers, Sequences, FiniteSets, TLC

VARIABLES
  pPc, pBase, pRef, pOut,     \* path resolver: one call of resolveHref
  qRef, qOut,                 \* a second call, with the result of the first as its base
  sPc, sZip, sResult,         \* parser: one call of parseStructure on an archive
  nPc, nZip, nItem, nOut,     \* normalizer: one call of loadSpineItem or loadChapter
  \* the Reader of Reader.jsx: its bookData prop, its initRef, its state, and
  \* whether the promise of loadEntireBook is pending
  bookData, initRef, bookContent, loading, error, loadPending,
  \* its progress state, the progress value held by the pending timer of the
  \* save effect, the last update handed to onUpdateProgress, the number of
  \* calls of loadEntireBook, and whether the Reader was unmounted
  progress, saveTimer, emitted, loads, closed,
  \* its showToc state, and the id of the section element scrollIntoView was
  \* last called on
  showToc, scrolledTo,
  \* the Reader of Library.jsx: its props bookData.buffer and bookMeta.currentCfi,
  \* its state (loading and error are epubLoading and epubError here), the
  \* pending promises of parseEpub and of loadChapter, the number of runs of the
  \* parse effect, the last update handed to onUpdateProgress, and whether the
  \* Reader was unmounted
  epubBuffer, savedCfi, epubData, chapterIndex, chapterHtml, chapterLoading,
  epubLoading, epubError, currentLabel, parsesPending, chapterLoads, parses, persisted,
  unmounted,
  \* the library state of useLibrary, which the save effect writes to
  \* localStorage after every change, and the last value read from Date.now()
  library, now

pathVars == <<pPc, pBase, pRef, pOut, qRef, qOut>>
parseVars == <<sPc, sZip, sResult>>
normVars == <<nPc, nZip, nItem, nOut>>
bookVars ==
  <<bookData, initRef, bookContent, loading, error, loadPending,
    progress, saveTimer, emitted, loads, closed, showToc, scrolledTo>>
chapterVars ==
  <<epubBuffer, savedCfi, epubData, chapterIndex, chapterHtml, chapterLoading,
    epubLoading, epubError, currentLabel, parsesPending, chapterLoads, parses, persisted,
    unmounted>>
libraryVars == <<library, now>>
vars == <<pathVars, parseVars, normVars, bookVars, chapterVars, libraryVars>>

(***************************************************************************)
(* Bounds of the model.                                                    *)
(***************************************************************************)
MaxBaseLen == 3
MaxRefLen == 4
\* segments of a relative reference that is resolved in two steps
MaxSegs == 3
\* the highest value Date.now() returns
MaxClock == 2
\* item elements in a manifest, itemref elements in a spine
MaxItems == 2
MaxItemrefs == 3
\* top-level navPoint elements of a navMap, top-level li elements of a nav list
MaxPoints == 2
MaxLinks == 2
\* child nodes of a chapter's content root
MaxBlocks == 2
\* runs of the parse effect of the per-chapter Reader, and its pending loads
MaxParses == 2
MaxLoads == 2
\* el.scrollTop, and el.scrollHeight - el.clientHeight, of the content container
MaxScrollTop == 3
MaxExtent == 2

(***************************************************************************)
(* Strings.                                                                *)
(***************************************************************************)
\* the value JavaScript calls null / undefined, where the code tests for it
Null == <<"<null>">>
\* a state or prop that is null, or holds a value
None == <<>>
Some(v) == <<v>>

startsWith(s, tok) == Len(s) >= 1 /\ s[1] = tok

indexOf(s, tok) ==
  IF \E i \in 1..Len(s) : s[i] = tok
  THEN (CHOOSE i \in 1..Len(s) : s[i] = tok /\ \A j \in 1..(i - 1) : s[j] # tok) - 1
  ELSE -1

lastIndexOf(s, tok) ==
  IF \E i \in 1..Len(s) : s[i] = tok
  THEN (CHOOSE i \in 1..Len(s) : s[i] = tok /\ \A j \in (i + 1)..Len(s) : s[j] # tok) - 1
  ELSE -1

\* String.prototype.substring(from, to), zero-based, end exclusive
substring(s, from, to) == SubSeq(s, from + 1, to)

\* String.prototype.split(sep): ''.split('/') is [''], 'a//b' is ['a','','b']
RECURSIVE split(_, _)
split(s, sep) ==
  LET i == indexOf(s, sep)
  IN IF i < 0 THEN <<s>>
     ELSE <<substring(s, 0, i)>> \o split(substring(s, i + 1, Len(s)), sep)

\* Array.prototype.join(sep)
RECURSIVE join(_, _)
join(parts, sep) ==
  IF parts = <<>> THEN <<>>
  ELSE IF Len(parts) = 1 THEN parts[1]
  ELSE parts[1] \o <<sep>> \o join(Tail(parts), sep)

\* href.split('#')[0]
stripFragment(href) == split(href, "#")[1]

(***************************************************************************)
(* Path helpers (Reader.jsx 25-44, identical in Library.jsx 165-184).      *)
(***************************************************************************)
DotDot == <<".", ".">>
Dot == <<".">>

\* a '..' with nothing to pop is kept as a segment
pop_keepDotDot(stack) == IF stack = <<>> THEN <<DotDot>> ELSE SubSeq(stack, 1, Len(stack) - 1)

\* Array.prototype.pop on the stack: a no-op on the empty array
pop(stack) == IF stack = <<>> THEN <<>> ELSE SubSeq(stack, 1, Len(stack) - 1)

\* the loop body with the pop of '..' lost: '..' is only skipped
normalizeStep_noPop(stack, p) ==
  IF p = DotDot THEN stack
  ELSE IF p # Dot THEN Append(stack, p)
  ELSE stack

\* the loop body of normalizePath
normalizeStep(stack, p) ==
  IF p = DotDot THEN pop(stack)
  ELSE IF p # Dot THEN Append(stack, p)
  ELSE stack

RECURSIVE normalizeLoop(_, _)
normalizeLoop(parts, stack) ==
  IF parts = <<>> THEN stack
  ELSE normalizeLoop(Tail(parts), normalizeStep(stack, Head(parts)))

normalizePath(path) ==
  LET parts == SelectSeq(split(path, "/"), LAMBDA p : p # <<>>)
  IN join(normalizeLoop(parts, <<>>), "/")

\* dirOf without the trailing '/'
dirOf_noSlash(path) ==
  LET i == lastIndexOf(path, "/")
  IN IF i >= 0 THEN substring(path, 0, i) ELSE <<>>

dirOf(path) ==
  LET i == lastIndexOf(path, "/")
  IN IF i >= 0 THEN substring(path, 0, i + 1) ELSE <<>>

resolveHref(basePath, href) ==
  IF href = Null \/ href = <<>> THEN <<>>
  ELSE IF startsWith(href, "/") THEN normalizePath(href)
  ELSE normalizePath(dirOf(basePath) \o href)

(***************************************************************************)
(* Documents.  A node is an element (tag, attributes, children) or a text  *)
(* node; a document is a "#document" node holding the root element.  An    *)
(* address is the sequence of child indices leading from a scope to one of *)
(* its descendants; addresses are produced in document order.              *)
(***************************************************************************)
El(tag, attrs, kids) == [tag |-> tag, attrs |-> attrs, kids |-> kids, text |-> <<>>]
Text(t) == [tag |-> "#text", attrs |-> <<>>, kids |-> <<>>, text |-> t]
Document(root) == El("#document", <<>>, <<root>>)
NoAttrs == <<>>

isElement(n) == n.tag # "#text"
hasAttribute(e, name) == name \in DOMAIN e.attrs
getAttribute(e, name) == IF hasAttribute(e, name) THEN e.attrs[name] ELSE Null
documentElement(doc) == doc.kids[1]

RECURSIVE nodeAt(_, _)
nodeAt(n, a) == IF a = <<>> THEN n ELSE nodeAt(n.kids[a[1]], Tail(a))

RECURSIVE addrsFrom(_, _)
addrsFrom(n, i) ==
  IF i > Len(n.kids) THEN <<>>
  ELSE LET below == addrsFrom(n.kids[i], 1)
           here == IF isElement(n.kids[i])
                   THEN <<<<i>>>> \o [k \in 1..Len(below) |-> <<i>> \o below[k]]
                   ELSE <<>>
       IN here \o addrsFrom(n, i + 1)

\* the descendant elements of scope, in document order
descendants(scope) == addrsFrom(scope, 1)

\* selectors
selTag(tag, scope, a) == nodeAt(scope, a).tag = tag
selDescendant(anc, tag, scope, a) ==
  /\ nodeAt(scope, a).tag = tag
  /\ \E k \in 1..(Len(a) - 1) : nodeAt(scope, SubSeq(a, 1, k)).tag = anc
selChild(parent, tag, scope, a) ==
  /\ nodeAt(scope, a).tag = tag
  /\ Len(a) >= 2
  /\ nodeAt(scope, SubSeq(a, 1, Len(a) - 1)).tag = parent
selScopeChild(tag, scope, a) == Len(a) = 1 /\ nodeAt(scope, a).tag = tag
selScopeGrandChild(child, tag, scope, a) ==
  /\ Len(a) = 2
  /\ nodeAt(scope, <<a[1]>>).tag = child
  /\ nodeAt(scope, a).tag = tag
selTagAttr(tag, name, value, scope, a) ==
  /\ nodeAt(scope, a).tag = tag
  /\ getAttribute(nodeAt(scope, a), name) = value

\* a selector is the tuple of its kind and its names
matches(sel, scope, a) ==
  CASE sel[1] = "selTag" -> selTag(sel[2], scope, a)
    [] sel[1] = "selDescendant" -> selDescendant(sel[2], sel[3], scope, a)
    [] sel[1] = "selChild" -> selChild(sel[2], sel[3], scope, a)
    [] sel[1] = "selScopeChild" -> selScopeChild(sel[2], scope, a)
    [] sel[1] = "selScopeGrandChild" -> selScopeGrandChild(sel[2], sel[3], scope, a)
    [] sel[1] = "selTagAttr" -> selTagAttr(sel[2], sel[3], sel[4], scope, a)

\* scope.querySelectorAll(selector): the matching descendants in document order
querySelectorAll(scope, sel) ==
  LET hits == SelectSeq(descendants(scope), LAMBDA a : matches(sel, scope, a))
  IN [k \in 1..Len(hits) |-> nodeAt(scope, hits[k])]

RECURSIVE textContent(_)
RECURSIVE textOfKids(_, _)
textOfKids(kids, i) ==
  IF i > Len(kids) THEN <<>> ELSE textContent(kids[i]) \o textOfKids(kids, i + 1)
textContent(n) == IF n.tag = "#text" THEN n.text ELSE textOfKids(n.kids, 1)

\* String.prototype.trim; " " is the white-space token
RECURSIVE trimStart(_)
trimStart(s) == IF s # <<>> /\ Head(s) = " " THEN trimStart(Tail(s)) ELSE s
RECURSIVE trimEnd(_)
trimEnd(s) ==
  IF s # <<>> /\ s[Len(s)] = " " THEN trimEnd(SubSeq(s, 1, Len(s) - 1)) ELSE s
trim(s) == trimEnd(trimStart(s))

includes(s, tok) == \E i \in 1..Len(s) : s[i] = tok

(***************************************************************************)
(* The archive (JSZip).  files maps an entry name to the entry.  An entry  *)
(* is readable or not (async() rejects on a damaged entry); its text is    *)
(* well-formed XML with the given root, or not well-formed, and then root  *)
(* is what the XML parser had built when it met the error; an image entry  *)
(* carries its bytes and whether FileReader can encode them.               *)
(***************************************************************************)
XmlEntry(root) ==
  [readable |-> TRUE, wf |-> TRUE, root |-> root, html |-> root, bytes |-> "",
   encodable |-> TRUE]
MalformedEntry(root) ==
  [readable |-> TRUE, wf |-> FALSE, root |-> root, html |-> root, bytes |-> "",
   encodable |-> TRUE]
\* markup that is not well-formed: partial is what the XML parser had built, html
\* the tree the permissive HTML parser builds from the same text
TagSoupEntry(partial, html) ==
  [readable |-> TRUE, wf |-> FALSE, root |-> partial, html |-> html, bytes |-> "",
   encodable |-> TRUE]
DamagedEntry ==
  [readable |-> FALSE, wf |-> FALSE, root |-> El("none", NoAttrs, <<>>),
   html |-> El("none", NoAttrs, <<>>), bytes |-> "", encodable |-> FALSE]
ImageEntry(bytes, encodable) ==
  [readable |-> TRUE, wf |-> FALSE, root |-> El("none", NoAttrs, <<>>),
   html |-> El("none", NoAttrs, <<>>), bytes |-> bytes, encodable |-> encodable]
Zip(files) == [valid |-> TRUE, files |-> files]
NoFiles == <<>>
CorruptZip == [valid |-> FALSE, files |-> NoFiles]

\* zip.file(name): the entry or null
hasFile(zip, name) == name \in DOMAIN zip.files
file(zip, name) == zip.files[name]

\* new DOMParser().parseFromString(text, 'application/xml' | 'application/xhtml+xml'):
\* never throws; a document that is not well-formed gets a parsererror element
parseFromString(entry) ==
  IF entry.wf THEN Document(entry.root)
  ELSE Document([entry.root EXCEPT !.kids = <<El("parsererror", NoAttrs, <<>>)>> \o @])

\* new DOMParser().parseFromString(text, 'text/html'): the permissive parser
parseHtml(entry) == Document(entry.html)

(***************************************************************************)
(* parseStructure (Reader.jsx 48-138; parseEpub in Library.jsx 188-292 is  *)
(* the same code after JSZip.loadAsync).  The result records whether the   *)
(* promise resolved or rejected, the error message, the parts of the       *)
(* BookStructure and the entry names looked up in the archive, in order.   *)
(***************************************************************************)
ContainerPath == <<"META-INF", "/", "container.xml">>
ErrMissingContainer == "Invalid epub: missing container.xml"
ErrNoRootfile == "Invalid epub: no rootfile"
ErrMissingOpf == "Invalid epub: missing OPF"
\* the rejection of JSZip's async() on a damaged entry
ErrDamagedEntry == "Corrupted zip entry"
\* the rejection of JSZip.loadAsync on bytes that are no archive
ErrCorruptArchive == "Can't find end of central directory"
NcxMediaType == <<"application/x-dtbncx+xml">>
XhtmlMediaType == <<"application/xhtml+xml">>
HtmlMediaType == <<"text/html">>

Thrown(message, reads) ==
  [ok |-> FALSE, error |-> message, spine |-> <<>>, manifest |-> <<>>, toc |-> <<>>,
   reads |-> reads]

\* value || ''
orEmpty(v) == IF v = Null THEN <<>> ELSE v
\* the property key a value is converted to: null becomes "null"
propertyKey(v) == IF v = Null THEN <<"null">> ELSE v

\* the manifest object, in insertion order; manifest[id] = item
manifestHas(manifest, key) == \E k \in 1..Len(manifest) : manifest[k].id = key
manifestGet(manifest, key) ==
  manifest[CHOOSE k \in 1..Len(manifest) : manifest[k].id = key]
manifestSet(manifest, item) ==
  IF manifestHas(manifest, item.id)
  THEN [k \in 1..Len(manifest) |-> IF manifest[k].id = item.id THEN item ELSE manifest[k]]
  ELSE Append(manifest, item)

\* the href is stored unresolved
manifestItem_unresolved(opfPath, item) ==
  [id |-> propertyKey(getAttribute(item, "id")),
   href |-> getAttribute(item, "href"),
   mediaType |-> orEmpty(getAttribute(item, "media-type")),
   properties |-> orEmpty(getAttribute(item, "properties")),
   fullPath |-> orEmpty(getAttribute(item, "href"))]

manifestItem(opfPath, item) ==
  [id |-> propertyKey(getAttribute(item, "id")),
   href |-> getAttribute(item, "href"),
   mediaType |-> orEmpty(getAttribute(item, "media-type")),
   properties |-> orEmpty(getAttribute(item, "properties")),
   fullPath |-> resolveHref(opfPath, getAttribute(item, "href"))]

RECURSIVE buildManifest(_, _, _)
buildManifest(items, opfPath, manifest) ==
  IF items = <<>> THEN manifest
  ELSE buildManifest(Tail(items), opfPath,
                     manifestSet(manifest, manifestItem(opfPath, Head(items))))

\* the spine loop: if (manifest[idref]) spine.push({ id: idref, ...manifest[idref] })
spinePush(spine, manifest, idref) ==
  IF manifestHas(manifest, propertyKey(idref))
  THEN Append(spine, [manifestGet(manifest, propertyKey(idref)) EXCEPT !.id = idref])
  ELSE spine

\* an unknown idref ends the loop
RECURSIVE buildSpine_stopAtUnknown(_, _, _)
buildSpine_stopAtUnknown(refs, manifest, spine) ==
  IF refs = <<>> THEN spine
  ELSE IF ~manifestHas(manifest, propertyKey(getAttribute(Head(refs), "idref")))
  THEN spine
  ELSE buildSpine_stopAtUnknown(Tail(refs), manifest,
                  spinePush(spine, manifest, getAttribute(Head(refs), "idref")))

RECURSIVE buildSpine(_, _, _)
buildSpine(refs, manifest, spine) ==
  IF refs = <<>> THEN spine
  ELSE buildSpine(Tail(refs), manifest,
                  spinePush(spine, manifest, getAttribute(Head(refs), "idref")))

RECURSIVE parseNcxPoints(_, _)
parseNcxPoints(points, ncxPath) ==
  [k \in 1..Len(points) |->
     LET np == points[k]
         text == querySelectorAll(np, <<"selScopeGrandChild", "navLabel", "text">>)
         content == querySelectorAll(np, <<"selScopeChild", "content">>)
         children == querySelectorAll(np, <<"selScopeChild", "navPoint">>)
     IN [label |-> IF text = <<>> THEN <<>> ELSE trim(textContent(text[1])),
         href |-> resolveHref(ncxPath,
                    IF content = <<>> THEN <<>> ELSE orEmpty(getAttribute(content[1], "src"))),
         subitems |-> IF Len(children) > 0 THEN parseNcxPoints(children, ncxPath) ELSE <<>>]]

\* ol is the result of a querySelector: <<>> for null, <<element>> otherwise
RECURSIVE parseNavOl(_, _)
RECURSIVE parseNavLis(_, _, _)
parseNavLis(lis, navPath, i) ==
  IF i > Len(lis) THEN <<>>
  ELSE LET li == lis[i]
           a == querySelectorAll(li, <<"selScopeChild", "a">>)
           subOl == querySelectorAll(li, <<"selScopeChild", "ol">>)
           item == [label |-> trim(textContent(a[1])),
                    href |-> resolveHref(navPath, orEmpty(getAttribute(a[1], "href"))),
                    subitems |-> IF subOl # <<>> THEN parseNavOl(<<subOl[1]>>, navPath)
                                 ELSE <<>>]
       IN (IF a = <<>> THEN <<>> ELSE <<item>>) \o parseNavLis(lis, navPath, i + 1)
parseNavOl(ol, navPath) ==
  IF ol = <<>> THEN <<>>
  ELSE parseNavLis(querySelectorAll(ol[1], <<"selScopeChild", "li">>),
                   navPath, 1)

\* Object.values(manifest).find(pred): <<>> for undefined
findItem(hits) == IF hits = <<>> THEN <<>> ELSE <<hits[1]>>

\* the same without the try { } catch { }: a damaged entry rejects the parse
tocFromNcx_noCatch(zip, manifest) ==
  LET ncxItem == findItem(SelectSeq(manifest, LAMBDA m : m.mediaType = NcxMediaType))
  IN IF ncxItem = <<>> THEN [toc |-> <<>>, reads |-> <<>>, thrown |-> FALSE]
     ELSE LET path == ncxItem[1].fullPath
              seen == [toc |-> <<>>, reads |-> <<path>>, thrown |-> FALSE]
          IN IF ~hasFile(zip, path) THEN seen
             ELSE IF ~file(zip, path).readable THEN [seen EXCEPT !.thrown = TRUE]
             ELSE [seen EXCEPT !.toc =
                     parseNcxPoints(
                       querySelectorAll(parseFromString(file(zip, path)),
                                        <<"selChild", "navMap", "navPoint">>),
                       path)]

\* lines 77-89: the legacy navigation-control source, inside its try { } catch { }
tocFromNcx(zip, manifest) ==
  LET ncxItem == findItem(SelectSeq(manifest, LAMBDA m : m.mediaType = NcxMediaType))
  IN IF ncxItem = <<>> THEN [toc |-> <<>>, reads |-> <<>>, thrown |-> FALSE]
     ELSE LET path == ncxItem[1].fullPath
              seen == [toc |-> <<>>, reads |-> <<path>>, thrown |-> FALSE]
          IN IF ~hasFile(zip, path) THEN seen
             ELSE IF ~file(zip, path).readable THEN seen
             ELSE [seen EXCEPT !.toc =
                     parseNcxPoints(
                       querySelectorAll(parseFromString(file(zip, path)),
                                        <<"selChild", "navMap", "navPoint">>),
                       path)]

\* lines 91-103: the modern navigation document, inside its try { } catch { }
tocFromNav(zip, manifest) ==
  LET navItem == findItem(SelectSeq(manifest, LAMBDA m : includes(m.properties, "nav")))
  IN IF navItem = <<>> THEN [toc |-> <<>>, reads |-> <<>>, thrown |-> FALSE]
     ELSE LET path == navItem[1].fullPath
              seen == [toc |-> <<>>, reads |-> <<path>>, thrown |-> FALSE]
          IN IF ~hasFile(zip, path) THEN seen
             ELSE IF ~file(zip, path).readable THEN seen
             ELSE LET navDoc == parseFromString(file(zip, path))
                      tocNav == querySelectorAll(navDoc,
                                  <<"selTagAttr", "nav", "epub:type", <<"toc">>>>)
                      anyNav == querySelectorAll(navDoc, <<"selTag", "nav">>)
                      navEl == IF tocNav # <<>> THEN <<tocNav[1]>>
                               ELSE IF anyNav # <<>> THEN <<anyNav[1]>> ELSE <<>>
                      ol == IF navEl = <<>> THEN <<>>
                            ELSE querySelectorAll(navEl[1], <<"selTag", "ol">>)
                  IN IF navEl = <<>> THEN seen
                     ELSE [seen EXCEPT !.toc =
                             parseNavOl(IF ol = <<>> THEN <<>> ELSE <<ol[1]>>, path)]

\* the modern source is always read and wins when it has entries
chooseToc_navFirst(zip, manifest, ncx) ==
  LET nav == tocFromNav(zip, manifest)
  IN IF Len(nav.toc) = 0 THEN [nav EXCEPT !.toc = ncx.toc] ELSE nav

\* the two sources are merged
chooseToc_merge(zip, manifest, ncx) ==
  LET nav == tocFromNav(zip, manifest)
  IN [nav EXCEPT !.toc = ncx.toc \o @]

\* line 90: if (!toc.length) the modern source is consulted
chooseToc(zip, manifest, ncx) ==
  IF Len(ncx.toc) = 0 THEN tocFromNav(zip, manifest)
  ELSE [toc |-> ncx.toc, reads |-> <<>>, thrown |-> FALSE]

\* lines 55-106, once the package document's text is there
parsePackage(zip, opfPath, reads) ==
  LET opfDoc == parseFromString(file(zip, opfPath))
      manifest == buildManifest(
                    querySelectorAll(opfDoc, <<"selDescendant", "manifest", "item">>),
                    opfPath, <<>>)
      spine == buildSpine(
                 querySelectorAll(opfDoc, <<"selDescendant", "spine", "itemref">>),
                 manifest, <<>>)
      ncx == tocFromNcx(zip, manifest)
      nav == chooseToc(zip, manifest, ncx)
  IN IF ncx.thrown \/ nav.thrown
     THEN Thrown(ErrDamagedEntry, reads \o ncx.reads \o nav.reads)
     ELSE [ok |-> TRUE, error |-> "", spine |-> spine, manifest |-> manifest,
           toc |-> nav.toc, reads |-> reads \o ncx.reads \o nav.reads]

\* a package document that is not in the archive is taken for an empty one
locatePackage_openAnyway(zip, opfPath, reads) ==
  IF opfPath = Null \/ opfPath = <<>> THEN Thrown(ErrNoRootfile, reads)
  ELSE IF ~hasFile(zip, opfPath)
  THEN [ok |-> TRUE, error |-> "", spine |-> <<>>, manifest |-> <<>>, toc |-> <<>>,
        reads |-> Append(reads, opfPath)]
  ELSE IF ~file(zip, opfPath).readable THEN Thrown(ErrDamagedEntry, Append(reads, opfPath))
  ELSE parsePackage(zip, opfPath, Append(reads, opfPath))

\* lines 52-56: the package document is located and read
locatePackage(zip, opfPath, reads) ==
  IF opfPath = Null \/ opfPath = <<>> THEN Thrown(ErrNoRootfile, reads)
  ELSE IF ~hasFile(zip, opfPath) THEN Thrown(ErrMissingOpf, Append(reads, opfPath))
  ELSE IF ~file(zip, opfPath).readable THEN Thrown(ErrDamagedEntry, Append(reads, opfPath))
  ELSE parsePackage(zip, opfPath, Append(reads, opfPath))

parseStructure(zip) ==
  IF ~hasFile(zip, ContainerPath) THEN Thrown(ErrMissingContainer, <<ContainerPath>>)
  ELSE IF ~file(zip, ContainerPath).readable THEN Thrown(ErrDamagedEntry, <<ContainerPath>>)
  ELSE LET containerDoc == parseFromString(file(zip, ContainerPath))
           rootfile == querySelectorAll(containerDoc, <<"selTag", "rootfile">>)
           opfPath == IF rootfile = <<>> THEN Null
                      ELSE getAttribute(rootfile[1], "full-path")
       IN locatePackage(zip, opfPath, <<ContainerPath>>)

(***************************************************************************)
(* The content normalizer (loadSpineItem, Reader.jsx 142-195; loadChapter, *)
(* Library.jsx 296-357).  The markup it returns is the serialization of    *)
(* the content root's children: a sequence of tokens, one for each start   *)
(* tag (with the attributes), text node and end tag.                       *)
(***************************************************************************)
DataScheme == "data:"
NotFoundPlaceholder == "Chapter not found."

\* blobToDataUrl: onloadend resolves with r.result, which is null when the
\* read failed
blobToDataUrl(entry) == IF entry.encodable THEN <<DataScheme, entry.bytes>> ELSE Null

\* the conversion of an attribute value to a string
toDOMString(v) == IF v = Null THEN <<"null">> ELSE v
setAttribute(e, name, value) ==
  [e EXCEPT !.attrs = (name :> toDOMString(value)) @@ @]
removeAttribute(e, name) ==
  [e EXCEPT !.attrs = [n \in (DOMAIN @) \ {name} |-> @[n]]]

\* the selector 'style' alone
isStylesheet_styleOnly(n) == n.tag = "style"

\* the selector 'style, link[rel="stylesheet"]'
isStylesheet(n) ==
  \/ n.tag = "style"
  \/ n.tag = "link" /\ getAttribute(n, "rel") = <<"stylesheet">>

\* el.remove() for the elements below n that match the selector
RECURSIVE removeStylesheets(_)
RECURSIVE removeFromKids(_, _)
removeStylesheets(n) == [n EXCEPT !.kids = removeFromKids(n.kids, 1)]
removeFromKids(kids, i) ==
  IF i > Len(kids) THEN <<>>
  ELSE (IF isStylesheet(kids[i]) THEN <<>> ELSE <<removeStylesheets(kids[i])>>)
       \o removeFromKids(kids, i + 1)


\* removeAttribute('style') on the children of n only
removeStyleBelow_childrenOnly(n) ==
  [n EXCEPT !.kids = [k \in 1..Len(@) |-> removeAttribute(@[k], "style")]]

\* removeAttribute('style') on every element below n: body.querySelectorAll('[style]')
RECURSIVE removeStyleBelow(_)
removeStyleBelow(n) ==
  [n EXCEPT !.kids = [k \in 1..Len(@) |-> removeStyleBelow(removeAttribute(@[k], "style"))]]

\* first || second for two attribute values
orElse(first, second) == IF first = Null \/ first = <<>> THEN second ELSE first

\* whether the loops skip a reference: absent, empty or already inline data
skipped(ref) == ref = Null \/ ref = <<>> \/ startsWith(ref, DataScheme)

\* what the loops write to a reference whose entry is in the archive: nothing
\* when async('blob') rejects (catch {}), the result of blobToDataUrl otherwise
encoded(zip, fullPath) ==
  IF ~hasFile(zip, fullPath) \/ ~file(zip, fullPath).readable THEN <<>>
  ELSE <<blobToDataUrl(file(zip, fullPath))>>

\* the body of the img loop
inlineImg(zip, itemDir, img) ==
  LET src == getAttribute(img, "src")
      data == IF skipped(src) THEN <<>> ELSE encoded(zip, normalizePath(itemDir \o src))
  IN IF data = <<>> THEN img ELSE setAttribute(img, "src", data[1])

\* the body of the image loop
inlineImage(zip, itemDir, img) ==
  LET href == orElse(getAttribute(img, "xlink:href"), getAttribute(img, "href"))
      data == IF skipped(href) THEN <<>> ELSE encoded(zip, normalizePath(itemDir \o href))
  IN IF data = <<>> THEN img
     ELSE setAttribute(setAttribute(img, "xlink:href", data[1]), "href", data[1])

\* both loops over the elements below n
RECURSIVE inlineImages(_, _, _)
inlineImages(zip, itemDir, n) ==
  [n EXCEPT !.kids =
     [k \in 1..Len(@) |->
        inlineImages(zip, itemDir,
                     IF @[k].tag = "img" THEN inlineImg(zip, itemDir, @[k])
                     ELSE IF @[k].tag = "image" THEN inlineImage(zip, itemDir, @[k])
                     ELSE @[k])]]

\* tokens of the serialization
StartTag(e) == [kind |-> "start", tag |-> e.tag, attrs |-> e.attrs, text |-> <<>>]
EndTag(e) == [kind |-> "end", tag |-> e.tag, attrs |-> NoAttrs, text |-> <<>>]
Chars(text) == [kind |-> "text", tag |-> "", attrs |-> NoAttrs, text |-> text]

\* body.innerHTML
RECURSIVE serialize(_)
RECURSIVE innerHTML(_)
RECURSIVE serializeKids(_, _)
serialize(n) ==
  IF isElement(n) THEN <<StartTag(n)>> \o innerHTML(n) \o <<EndTag(n)>>
  ELSE <<Chars(n.text)>>
innerHTML(n) == serializeKids(n.kids, 1)
serializeKids(kids, i) ==
  IF i > Len(kids) THEN <<>> ELSE serialize(kids[i]) \o serializeKids(kids, i + 1)

\* the value a promise settles with: resolved with markup, or rejected
Resolved(html) == [ok |-> TRUE, error |-> "", html |-> html]
Rejected(message) == [ok |-> FALSE, error |-> message, html |-> <<>>]

\* new DOMParser().parseFromString(raw, 'application/xhtml+xml'), and again as
\* 'text/html' when the document holds a parsererror
parseContent(entry) ==
  LET doc == parseFromString(entry)
  IN IF querySelectorAll(doc, <<"selTag", "parsererror">>) # <<>> THEN parseHtml(entry)
     ELSE doc

\* doc.querySelector('body') || doc.documentElement
contentRoot(doc) ==
  LET bodies == querySelectorAll(doc, <<"selTag", "body">>)
  IN IF bodies = <<>> THEN documentElement(doc) ELSE bodies[1]

\* from the parse to the returned markup
normalize(zip, item) ==
  LET body == contentRoot(parseContent(file(zip, item.fullPath)))
      unstyled == removeStyleBelow(removeStylesheets(body))
  IN innerHTML(inlineImages(zip, dirOf(item.fullPath), unstyled))

loadSpineItem(zip, item) ==
  IF ~hasFile(zip, item.fullPath) THEN Resolved(<<>>)
  ELSE IF ~file(zip, item.fullPath).readable THEN Rejected(ErrDamagedEntry)
  ELSE Resolved(normalize(zip, item))

\* '<p style="color:#9090a0;text-align:center;padding:2em;">Chapter not found.</p>'
ChapterNotFound ==
  serialize(El("p", "style" :> <<"color:#9090a0;text-align:center;padding:2em;">>,
               <<Text(<<NotFoundPlaceholder>>)>>))

loadChapter(zip, spineItem) ==
  IF ~hasFile(zip, spineItem.fullPath) THEN Resolved(ChapterNotFound)
  ELSE IF ~file(zip, spineItem.fullPath).readable THEN Rejected(ErrDamagedEntry)
  ELSE Resolved(normalize(zip, spineItem))

(***************************************************************************)
(* loadEntireBook (Reader.jsx 197-220): every spine item that is a content *)
(* document is normalized in turn and the fragments are joined into one    *)
(* markup string.                                                          *)
(***************************************************************************)
\* !html.trim(): the markup is empty or white space only
isBlank(html) ==
  \A k \in 1..Len(html) : html[k].kind = "text" /\ trim(html[k].text) = <<>>

Section(i, html, fullPath) ==
  [id |-> <<"sec-", ToString(i)>>, html |-> html, fullPath |-> fullPath]

Sections(sections) == [ok |-> TRUE, error |-> "", sections |-> sections]
SectionsFailed(message) == [ok |-> FALSE, error |-> message, sections |-> <<>>]

\* one turn of the loop: a rejected loadSpineItem ends loadEntireBook, blank
\* markup is skipped, anything else is pushed
pushSection(i, item, loaded, rest) ==
  IF ~loaded.ok THEN SectionsFailed(loaded.error)
  ELSE IF ~rest.ok THEN rest
  ELSE IF isBlank(loaded.html) THEN rest
  ELSE Sections(<<Section(i, loaded.html, item.fullPath)>> \o rest.sections)

\* the loop over the spine from index i (zero-based): the sections pushed, or
\* the rejection of the first loadSpineItem that rejects
RECURSIVE loadSections(_, _, _)
loadSections(zip, spine, i) ==
  IF i >= Len(spine) THEN Sections(<<>>)
  ELSE IF spine[i + 1].mediaType # XhtmlMediaType /\ spine[i + 1].mediaType # HtmlMediaType
  THEN loadSections(zip, spine, i + 1)
  ELSE pushSection(i, spine[i + 1], loadSpineItem(zip, spine[i + 1]),
                   loadSections(zip, spine, i + 1))

\* `<div id="${s.id}">${s.html}</div>`
sectionMarkup(s) ==
  <<StartTag(El("div", "id" :> s.id, <<>>))>> \o s.html \o <<EndTag(El("div", NoAttrs, <<>>))>>

\* '\n<hr/>\n'
Separator ==
  <<Chars(<<"\n">>), [kind |-> "void", tag |-> "hr", attrs |-> NoAttrs, text |-> <<>>],
    Chars(<<"\n">>)>>

RECURSIVE combinedHtml(_)
combinedHtml(sections) ==
  IF sections = <<>> THEN <<>>
  ELSE IF Len(sections) = 1 THEN sectionMarkup(sections[1])
  ELSE sectionMarkup(sections[1]) \o Separator \o combinedHtml(Tail(sections))

BookLoaded(html, toc, sections) ==
  [ok |-> TRUE, error |-> "", html |-> html, toc |-> toc, sections |-> sections]
BookFailed(message) ==
  [ok |-> FALSE, error |-> message, html |-> <<>>, toc |-> <<>>, sections |-> <<>>]

\* the return value, from the sections of the loop
bookOfSections(structure, loaded) ==
  IF ~loaded.ok THEN BookFailed(loaded.error)
  ELSE BookLoaded(combinedHtml(loaded.sections), structure.toc, loaded.sections)

\* after parseStructure: its rejection, or the loop and the return value
bookOfStructure(zip, structure) ==
  IF ~structure.ok THEN BookFailed(structure.error)
  ELSE bookOfSections(structure, loadSections(zip, structure.spine, 0))

loadEntireBook(buffer) ==
  IF ~buffer.valid THEN BookFailed(ErrCorruptArchive)
  ELSE bookOfStructure(buffer, parseStructure(buffer))

(***************************************************************************)
(* Values and numbers.  A value carries its typeof; a number is the        *)
(* fraction num/den in lowest terms with den > 0 (an integer has den = 1), *)
(* so that a position which is no integer, such as the scroll fraction     *)
(* the whole-book Reader stores, is a value like any other.                *)
(***************************************************************************)
RECURSIVE gcd(_, _)
gcd(a, b) == IF b = 0 THEN a ELSE gcd(b, a % b)

abs(n) == IF n < 0 THEN 0 - n ELSE n

Number(num, den) == [type |-> "number", num |-> num, den |-> den]
Integer(n) == Number(n, 1)
Undefined == [type |-> "undefined", num |-> 0, den |-> 1]
StringValue == [type |-> "string", num |-> 0, den |-> 1]
\* the value null
NullValue == [type |-> "null", num |-> 0, den |-> 1]

\* a / b for integers a and b > 0
divide(a, b) == Number(a \div gcd(abs(a), b), b \div gcd(abs(a), b))

lessThan(a, b) == a.num * b.den < b.num * a.den
plus(a, n) == Number(a.num + n * a.den, a.den)

\* Math.max(a, b) and Math.min(a, b)
max(a, b) == IF lessThan(a, b) THEN b ELSE a
min(a, b) == IF lessThan(b, a) THEN b ELSE a

\* array[i] is an element: i is an integer within the array
isIndex(i, length) == i.den = 1 /\ i.num >= 0 /\ i.num < length

(***************************************************************************)
(* Per-chapter mode (the Reader of Library.jsx 361-485): parseEpub, the    *)
(* restored position, the position label and the index arithmetic of the   *)
(* navigation callbacks.                                                   *)
(***************************************************************************)
ErrNoRootfileFound == "Invalid epub: no rootfile found"
DefaultParseError == "Could not parse this epub file."
FailedPlaceholder == "Failed to load chapter."

\* parseEpub after JSZip.loadAsync: the code of parseStructure, with its own
\* message for a descriptor without a package path
epubOfStructure(structure) ==
  IF ~structure.ok /\ structure.error = ErrNoRootfile
  THEN [structure EXCEPT !.error = ErrNoRootfileFound]
  ELSE structure

parseEpub(buffer) ==
  IF ~buffer.valid THEN Thrown(ErrCorruptArchive, <<>>)
  ELSE epubOfStructure(parseStructure(buffer))

\* typeof saved === 'number' && saved >= 0 && saved < data.spine.length ? saved : 0
startIdx(saved, length) ==
  IF saved.type = "number" /\ ~lessThan(saved, Integer(0)) /\ lessThan(saved, Integer(length))
  THEN saved
  ELSE Integer(0)

\* '<p style="color:#9090a0;padding:2em;text-align:center;">Failed to load chapter.</p>'
ChapterFailed ==
  serialize(El("p", "style" :> <<"color:#9090a0;padding:2em;text-align:center;">>,
               <<Text(<<FailedPlaceholder>>)>>))

\* findLabel of the load effect: null when no entry of the tree matches
RECURSIVE findLabel(_, _)
RECURSIVE findLabelFrom(_, _, _)
findLabel(items, basePath) == findLabelFrom(items, basePath, 1)
findLabelFrom(items, basePath, k) ==
  IF k > Len(items) THEN Null
  ELSE IF stripFragment(items[k].href) = basePath THEN items[k].label
  ELSE IF items[k].subitems # <<>>
          /\ findLabel(items[k].subitems, basePath) \notin {Null, <<>>}
  THEN findLabel(items[k].subitems, basePath)
  ELSE findLabelFrom(items, basePath, k + 1)

\* findLabel(epubData.toc) || `${chapterIndex + 1} / ${epubData.spine.length}`
labelOf(data, index) ==
  orElse(findLabel(data.toc, stripFragment(data.spine[index + 1].fullPath)),
         <<ToString(index + 1), " / ", ToString(Len(data.spine))>>)

\* (chapterIndex + 1) / epubData.spine.length, as a fraction
pctOf(data, index) == [num |-> index + 1, den |-> Len(data.spine)]

\* Math.max(0, i - 1) and Math.min((epubData?.spine.length || 1) - 1, i + 1)
prevIndex(i) == max(Integer(0), plus(i, -1))
nextIndex(data, i) ==
  LET length == IF data = None \/ Len(data[1].spine) = 0 THEN 1 ELSE Len(data[1].spine)
  IN min(Integer(length - 1), plus(i, 1))

\* epubData.spine.findIndex(...): the lowest index whose path matches, or -1
findIndex(spine, basePath) ==
  IF \E k \in 1..Len(spine) : stripFragment(spine[k].fullPath) = basePath
  THEN (CHOOSE k \in 1..Len(spine) :
          /\ stripFragment(spine[k].fullPath) = basePath
          /\ \A j \in 1..(k - 1) : stripFragment(spine[j].fullPath) # basePath) - 1
  ELSE -1

(***************************************************************************)
(* Input documents and archives.                                           *)
(***************************************************************************)
SeqsUpTo(S, n) == UNION {[1..k -> S] : k \in 0..n}

OpfPath == <<"OEBPS", "/", "content.opf">>
RootOpfPath == <<"content.opf">>
NcxPath == <<"OEBPS", "/", "nav", "/", "toc.ncx">>
NavPath == <<"OEBPS", "/", "nav.xhtml">>

ContainerDoc(attrs) ==
  El("container", NoAttrs, <<El("rootfiles", NoAttrs, <<El("rootfile", attrs, <<>>)>>)>>)
ContainerFor(opfPath) == XmlEntry(ContainerDoc("full-path" :> opfPath))

Item(id, href, mediaType, properties) ==
  El("item",
     ("id" :> id) @@ ("href" :> href) @@ ("media-type" :> mediaType)
       @@ (IF properties = <<>> THEN NoAttrs ELSE "properties" :> properties),
     <<>>)
Itemref(idref) == El("itemref", "idref" :> idref, <<>>)
Package(items, itemrefs) ==
  El("package", NoAttrs,
     <<El("manifest", NoAttrs, items), El("spine", NoAttrs, itemrefs)>>)

\* archives that vary the package document: manifest items, itemrefs, package path
ItemIds == {<<"c1">>, <<"c2">>}
\* c1 is declared twice, with different hrefs
ItemPool == {Item(<<"c1">>, <<"chap1.xhtml">>, XhtmlMediaType, <<>>),
             Item(<<"c2">>, <<"chap2.xhtml">>, XhtmlMediaType, <<>>),
             Item(<<"c1">>, <<".", "/", ".", ".", "/", "text", "/", "/", "chap3.xhtml">>,
                  XhtmlMediaType, <<>>)}
IdrefPool == {Itemref(id) : id \in ItemIds \cup {<<"zz">>}}

PackageArchives(maxItems, maxItemrefs) ==
  {Zip((ContainerPath :> ContainerFor(OpfPath)) @@ (OpfPath :> XmlEntry(Package(items, refs)))) :
     items \in SeqsUpTo(ItemPool, maxItems),
     refs \in SeqsUpTo(IdrefPool, maxItemrefs)}
  \cup
  {Zip((ContainerPath :> ContainerFor(RootOpfPath))
       @@ (RootOpfPath :> XmlEntry(Package(items, <<Itemref(<<"c1">>), Itemref(<<"c2">>)>>)))) :
     items \in SeqsUpTo(ItemPool, maxItems)}

\* archives that vary how the open can fail
TwoChapters ==
  Package(<<Item(<<"c1">>, <<"chap1.xhtml">>, XhtmlMediaType, <<>>),
            Item(<<"c2">>, <<"chap2.xhtml">>, XhtmlMediaType, <<>>)>>,
          <<Itemref(<<"c1">>), Itemref(<<"c2">>)>>)

ContainerEntries ==
  {ContainerFor(OpfPath),
   XmlEntry(ContainerDoc(NoAttrs)),
   XmlEntry(El("container", NoAttrs, <<>>)),
   MalformedEntry(El("container", NoAttrs, <<>>)),
   MalformedEntry(ContainerDoc("full-path" :> OpfPath)),
   DamagedEntry}
OpfEntries ==
  {XmlEntry(TwoChapters),
   MalformedEntry(TwoChapters),
   MalformedEntry(Package(<<Item(<<"c1">>, <<"chap1.xhtml">>, XhtmlMediaType, <<>>)>>, <<>>)),
   MalformedEntry(El("package", NoAttrs, <<>>)),
   DamagedEntry}

OpenArchives ==
  {Zip(NoFiles), Zip(OpfPath :> XmlEntry(TwoChapters))}
  \cup {Zip(ContainerPath :> c) : c \in ContainerEntries}
  \cup {Zip((ContainerPath :> c) @@ (OpfPath :> o)) : c \in ContainerEntries, o \in OpfEntries}

\* archives that vary the two navigation sources
LabelTexts == {<<" ">>, <<" ", "Chapter One", " ">>}
NavTargets == {<<"chap1.xhtml">>, <<"chap1.xhtml", "#", "s2">>, <<"#", "top">>}

NavPoint(label, src, kids) ==
  El("navPoint", NoAttrs,
     <<El("navLabel", NoAttrs, <<El("text", NoAttrs, <<Text(label)>>)>>),
       El("content", "src" :> src, <<>>)>> \o kids)
LeafPoints ==
  {NavPoint(l, t, <<>>) : l \in LabelTexts, t \in NavTargets}
  \cup {El("navPoint", NoAttrs, <<El("content", "src" :> <<"chap1.xhtml">>, <<>>)>>),
        El("navPoint", NoAttrs, <<El("navLabel", NoAttrs, <<>>)>>)}
NavPoints ==
  LeafPoints
  \cup {NavPoint(<<"Part">>, <<".", ".", "/", "part.xhtml">>,
                  <<NavPoint(<<"Nested">>, <<"chap1.xhtml">>, <<>>)>>)}
NcxDoc(points) == El("ncx", NoAttrs, <<El("navMap", NoAttrs, points)>>)
OnePoint == <<NavPoint(<<"Legacy">>, <<"chap1.xhtml">>, <<>>)>>

NavLi(label, href, kids) ==
  El("li", NoAttrs, <<El("a", "href" :> href, <<Text(label)>>)>> \o kids)
NavOl(lis) == El("ol", NoAttrs, lis)
LeafLis ==
  {NavLi(l, t, <<>>) : l \in LabelTexts, t \in NavTargets}
  \cup {El("li", NoAttrs, <<El("span", NoAttrs, <<Text(<<"Heading">>)>>),
                            NavOl(<<NavLi(<<"Hidden">>, <<"chap1.xhtml">>, <<>>)>>)>>),
        El("li", NoAttrs, <<El("a", NoAttrs, <<>>)>>)}
NavLis ==
  LeafLis
  \cup {NavLi(<<"Part">>, <<"part.xhtml">>,
               <<NavOl(<<NavLi(<<"Nested">>, <<"chap1.xhtml">>, <<>>)>>)>>)}
NavDoc(navs) == El("html", NoAttrs, <<El("body", NoAttrs, navs)>>)
TocNav(lis) == El("nav", "epub:type" :> <<"toc">>, <<NavOl(lis)>>)
Landmarks ==
  El("nav", "epub:type" :> <<"landmarks">>,
     <<NavOl(<<NavLi(<<"Cover">>, <<"cover.xhtml">>, <<>>)>>)>>)
OneLink == <<NavLi(<<"Chapter One">>, <<"ch1.xhtml">>, <<>>)>>

\* an entry of the archive, or none
NoEntry == <<>>
NcxRich(maxPoints) ==
  {<<XmlEntry(NcxDoc(points))>> : points \in SeqsUpTo(NavPoints, maxPoints)}
NcxFew ==
  {NoEntry, <<DamagedEntry>>,
   <<MalformedEntry(El("ncx", NoAttrs, <<>>))>>,
   <<MalformedEntry(NcxDoc(OnePoint))>>,
   <<XmlEntry(NcxDoc(<<>>))>>,
   <<XmlEntry(NcxDoc(OnePoint))>>}
NavRich(maxLinks) ==
  {<<XmlEntry(NavDoc(<<TocNav(lis)>>))>> : lis \in SeqsUpTo(NavLis, maxLinks)}
  \cup {<<XmlEntry(NavDoc(<<Landmarks, TocNav(OneLink)>>))>>,
        <<XmlEntry(NavDoc(<<Landmarks>>))>>,
        <<XmlEntry(NavDoc(<<El("nav", NoAttrs, <<>>)>>))>>,
        <<XmlEntry(NavDoc(<<>>))>>}
NavFew ==
  {NoEntry, <<DamagedEntry>>,
   <<MalformedEntry(El("html", NoAttrs, <<>>))>>,
   <<XmlEntry(NavDoc(<<TocNav(<<>>)>>))>>,
   <<XmlEntry(NavDoc(<<TocNav(OneLink)>>))>>}

\* the manifest lists the legacy source, the modern source, both or neither
NavManifest(ncxListed, navListed) ==
  <<Item(<<"c1">>, <<"chap1.xhtml">>, XhtmlMediaType, <<>>)>>
  \o (IF navListed
      THEN <<Item(<<"nav">>, <<"nav.xhtml">>, XhtmlMediaType, <<"nav">>)>> ELSE <<>>)
  \o (IF ncxListed
      THEN <<Item(<<"ncx">>, <<"nav", "/", "toc.ncx">>, NcxMediaType, <<>>)>> ELSE <<>>)

NavArchive(ncxListed, navListed, ncx, nav) ==
  Zip((ContainerPath :> ContainerFor(OpfPath))
      @@ (OpfPath :> XmlEntry(Package(NavManifest(ncxListed, navListed),
                                      <<Itemref(<<"c1">>)>>)))
      @@ (IF ncx = NoEntry THEN NoFiles ELSE NcxPath :> ncx[1])
      @@ (IF nav = NoEntry THEN NoFiles ELSE NavPath :> nav[1]))

NavArchives(maxPoints, maxLinks) ==
  {NavArchive(TRUE, TRUE, ncx, nav) :
     ncx \in NcxRich(maxPoints),
     nav \in {<<DamagedEntry>>, <<XmlEntry(NavDoc(<<TocNav(OneLink)>>))>>}}
  \cup {NavArchive(TRUE, TRUE, ncx, nav) :
     ncx \in {NoEntry, <<XmlEntry(NcxDoc(<<>>))>>, <<XmlEntry(NcxDoc(OnePoint))>>},
     nav \in NavRich(maxLinks)}
  \cup {NavArchive(ncxListed, navListed, ncx, nav) :
          ncxListed \in BOOLEAN, navListed \in BOOLEAN, ncx \in NcxFew, nav \in NavFew}

\* chapters: OEBPS/text/ch1.xhtml refers to OEBPS/images/a.png as ../images/a.png
ChapterPath == <<"OEBPS", "/", "text", "/", "ch1.xhtml">>
ImagePath == <<"OEBPS", "/", "images", "/", "a.png">>
ImageRef == <<".", ".", "/", "images", "/", "a.png">>
MissingRef == <<"missing.png">>
InlineRef == <<DataScheme, "R0lGOD">>
Css == <<"color:red">>

Img(attrs) == El("img", attrs, <<>>)
Svg(attrs) == El("svg", NoAttrs, <<El("image", attrs, <<>>)>>)
StyleEl == El("style", NoAttrs, <<Text(<<"p{margin:0}">>)>>)
StylesheetLink == El("link", ("rel" :> <<"stylesheet">>) @@ ("href" :> <<"book.css">>), <<>>)

\* nodes with foreign styling, at the first and at deeper levels
StyledBlocks ==
  {El("p", "style" :> Css, <<Text(<<"Hello">>)>>),
   El("div", NoAttrs, <<StyleEl, El("span", "style" :> Css, <<Text(<<"deep">>)>>)>>),
   El("div", "style" :> Css, <<El("section", NoAttrs, <<StylesheetLink>>)>>),
   StyleEl,
   StylesheetLink,
   El("link", ("rel" :> <<"icon">>) @@ ("href" :> <<"fav.ico">>), <<>>),
   Text(<<" ">>)}

\* raster and vector image references
ImageBlocks ==
  {Img("src" :> ImageRef),
   Img(("src" :> ImageRef) @@ ("style" :> Css)),
   Img("src" :> MissingRef),
   Img("src" :> InlineRef),
   Img("alt" :> <<"none">>),
   Svg("xlink:href" :> ImageRef),
   Svg("href" :> ImageRef),
   Svg(("xlink:href" :> MissingRef) @@ ("href" :> ImageRef)),
   Svg("href" :> InlineRef)}

Heads ==
  {El("head", NoAttrs, <<>>),
   El("head", NoAttrs, <<El("title", NoAttrs, <<Text(<<"One">>)>>), StyleEl, StylesheetLink>>)}

\* a document with a body, and one whose content root is the document element
WithBody(head, blocks) == El("html", NoAttrs, <<head, El("body", "style" :> Css, blocks)>>)
WithoutBody(head, blocks) == El("html", NoAttrs, <<head>> \o blocks)

ChapterRoots(blockPool, n) ==
  {WithBody(h, bs) : h \in Heads, bs \in SeqsUpTo(blockPool, n)}
    \cup {WithoutBody(h, bs) : h \in Heads, bs \in SeqsUpTo(blockPool, n)}

ImageEntries ==
  {NoEntry, <<ImageEntry("PNG", TRUE)>>, <<ImageEntry("PNG", FALSE)>>, <<DamagedEntry>>}

ChapterArchive(chapter, image) ==
  Zip([f \in (IF chapter = NoEntry THEN {} ELSE {ChapterPath})
               \cup (IF image = NoEntry THEN {} ELSE {ImagePath}) |->
         IF f = ChapterPath THEN chapter[1] ELSE image[1]])

\* what the XML parser had built of a chapter when it met the error
Truncated(root) == [root EXCEPT !.kids = <<@[1]>>]

ChapterArchives(maxBlocks) ==
  {ChapterArchive(<<XmlEntry(r)>>, <<ImageEntry("PNG", TRUE)>>) :
     r \in ChapterRoots(StyledBlocks \cup ImageBlocks, maxBlocks)}
    \cup {ChapterArchive(<<XmlEntry(r)>>, i) :
            r \in ChapterRoots(ImageBlocks, 1), i \in ImageEntries}
    \cup {ChapterArchive(<<TagSoupEntry(Truncated(r), r)>>, i) :
            r \in ChapterRoots(StyledBlocks \cup ImageBlocks, 1), i \in ImageEntries}
    \cup {ChapterArchive(c, <<ImageEntry("PNG", TRUE)>>) : c \in {NoEntry, <<DamagedEntry>>}}

\* books: a cover image and two chapters in the spine
Chap1Path == <<"OEBPS", "/", "chap1.xhtml">>
Chap2Path == <<"OEBPS", "/", "chap2.xhtml">>
BookPackage ==
  Package(<<Item(<<"cover">>, <<"cover.png">>, <<"image/png">>, <<>>),
            Item(<<"c1">>, <<"chap1.xhtml">>, XhtmlMediaType, <<>>),
            Item(<<"c2">>, <<"chap2.xhtml">>, HtmlMediaType, <<>>)>>,
          <<Itemref(<<"cover">>), Itemref(<<"c1">>), Itemref(<<"c2">>)>>)

Page(blocks) == WithBody(El("head", NoAttrs, <<StyleEl>>), blocks)
ChapterEntries ==
  <<NoEntry,
    <<DamagedEntry>>,
    <<XmlEntry(Page(<<El("p", "style" :> Css, <<Text(<<"Hello">>)>>)>>))>>,
    <<XmlEntry(Page(<<Text(<<" ">>)>>))>>,
    <<XmlEntry(Page(<<>>))>>,
    <<TagSoupEntry(El("html", NoAttrs, <<>>), Page(<<El("p", NoAttrs, <<Text(<<"Soup">>)>>)>>))>> >>

BookArchive(opf, chap1, chap2) ==
  Zip([f \in {ContainerPath, OpfPath}
               \cup (IF chap1 = NoEntry THEN {} ELSE {Chap1Path})
               \cup (IF chap2 = NoEntry THEN {} ELSE {Chap2Path}) |->
         IF f = ContainerPath THEN ContainerFor(OpfPath)
         ELSE IF f = OpfPath THEN opf
         ELSE IF f = Chap1Path THEN chap1[1]
         ELSE chap2[1]])

BookArchives ==
  {BookArchive(XmlEntry(BookPackage), ChapterEntries[k1], ChapterEntries[k2]) :
     k1 \in 1..Len(ChapterEntries), k2 \in 1..Len(ChapterEntries)}
    \cup {BookArchive(MalformedEntry(BookPackage), ChapterEntries[k], ChapterEntries[k]) :
            k \in 1..Len(ChapterEntries)}

\* the same books with a legacy table of contents, OEBPS/toc.ncx: links to the
\* first chapter, to an anchor of the second, below it to the cover image, and
\* to a document that is in no spine
TocPath == <<"OEBPS", "/", "toc.ncx">>
NonePath == <<"OEBPS", "/", "none.xhtml">>
TocBookPackage ==
  Package(<<Item(<<"cover">>, <<"cover.png">>, <<"image/png">>, <<>>),
            Item(<<"c1">>, <<"chap1.xhtml">>, XhtmlMediaType, <<>>),
            Item(<<"c2">>, <<"chap2.xhtml">>, HtmlMediaType, <<>>),
            Item(<<"ncx">>, <<"toc.ncx">>, NcxMediaType, <<>>)>>,
          <<Itemref(<<"cover">>), Itemref(<<"c1">>), Itemref(<<"c2">>)>>)
TocBookPoints ==
  <<NavPoint(<<"One">>, <<"chap1.xhtml">>, <<>>),
    NavPoint(<<"Two">>, <<"chap2.xhtml", "#", "s2">>,
             <<NavPoint(<<"Cover">>, <<"cover.png">>, <<>>)>>),
    NavPoint(<<"Gone">>, <<"none.xhtml">>, <<>>)>>
TocBookArchive(chap1, chap2) ==
  Zip((TocPath :> XmlEntry(NcxDoc(TocBookPoints)))
      @@ BookArchive(XmlEntry(TocBookPackage), chap1, chap2).files)
TocBookChapters == {NoEntry, ChapterEntries[3], ChapterEntries[4]}
TocBookArchives ==
  {TocBookArchive(chap1, chap2) : chap1 \in TocBookChapters, chap2 \in TocBookChapters}

(***************************************************************************)
(* The library of useLibrary.js.  A book is a record of the fields path,   *)
(* title, author, cover, addedAt, lastOpened, progress and currentCfi; an  *)
(* object spread {...a, ...b} is b @@ a, the later operand winning.         *)
(***************************************************************************)
\* load() with nothing stored
EmptyLibrary == [books |-> <<>>, lastRead |-> Null]

\* prev.books.findIndex((b) => b.path === book.path), counted from 1, with 0
\* for the -1 of no match
existing(books, path) ==
  IF \E k \in 1..Len(books) : books[k].path = path
  THEN CHOOSE k \in 1..Len(books) :
         /\ books[k].path = path
         /\ \A j \in 1..(k - 1) : books[j].path # path
  ELSE 0

\* a known path gets a fresh entry as well
addBook_alwaysNew(prev, book, t1, t2) ==
  [books |-> <<[addedAt |-> t1, lastOpened |-> t2, progress |-> Integer(0),
                currentCfi |-> NullValue] @@ book>> \o prev.books,
   lastRead |-> book.path] @@ prev

\* addBook (useLibrary.js 27-38); t1 and t2 are the values of its calls of
\* Date.now(), of which the branch of a known path makes one
addBook(prev, book, t1, t2) ==
  [books |-> IF existing(prev.books, book.path) >= 1
             THEN [prev.books EXCEPT ![existing(prev.books, book.path)] =
                     [lastOpened |-> t1] @@ book @@ @]
             ELSE <<[addedAt |-> t1, lastOpened |-> t2, progress |-> Integer(0),
                     currentCfi |-> NullValue] @@ book>> \o prev.books,
   lastRead |-> book.path] @@ prev

\* an unknown path gets an entry made of the updates
updateBook_upsert(prev, path, updates) ==
  [books |-> IF existing(prev.books, path) >= 1
             THEN [k \in 1..Len(prev.books) |->
                     IF prev.books[k].path = path
                     THEN updates @@ prev.books[k]
                     ELSE prev.books[k]]
             ELSE Append(prev.books, updates @@ [path |-> path])] @@ prev

\* updateBook (useLibrary.js 40-47)
updateBook(prev, path, updates) ==
  [books |-> [k \in 1..Len(prev.books) |->
                IF prev.books[k].path = path
                THEN updates @@ prev.books[k]
                ELSE prev.books[k]]] @@ prev

\* lastRead is left as it was
removeBook_keepLastRead(prev, path) ==
  [books |-> SelectSeq(prev.books, LAMBDA b : b.path # path)] @@ prev

\* removeBook (useLibrary.js 49-55)
removeBook(prev, path) ==
  [books |-> SelectSeq(prev.books, LAMBDA b : b.path # path),
   lastRead |-> IF prev.lastRead = path THEN Null ELSE prev.lastRead] @@ prev

\* the files the dialog of handleOpenFile can return, with the metadata
\* extractMetadata reads from them
Paths == {<<"a.epub">>, <<"b.epub">>}
Titles == {"Title", "Second edition"}
OpenedBooks ==
  {[path |-> path, title |-> title, author |-> "Author", cover |-> Null] :
     path \in Paths, title \in Titles}

\* currentBook of App while a Reader is shown: the book handleOpenFile opened
CurrentPath == <<"a.epub">>
CurrentBook == [path |-> CurrentPath, title |-> "Title", author |-> "Author", cover |-> Null]

\* handleUpdateProgress (part_000 132-136), the onUpdateProgress of the Reader
handleUpdateProgress(cfi, pct) ==
  library' = IF CurrentPath # <<>>
             THEN updateBook(library, CurrentPath, [currentCfi |-> cfi, progress |-> pct])
             ELSE library

\* the library after handleOpenFile added the book that is shown
OpenedLibrary == addBook(EmptyLibrary, CurrentBook, 0, 0)

LibraryIdle == library = EmptyLibrary /\ now = 0

\* the library while a Reader shows a book opened for the first time
LibraryOpened == library = OpenedLibrary /\ now = 0

(***************************************************************************)
(* Each specification below exercises one part of the program and leaves   *)
(* the variables of the other parts in their idle values.                  *)
(***************************************************************************)
PathIdle ==
  /\ pPc = "idle"
  /\ pBase = <<>>
  /\ pRef = <<>>
  /\ pOut = <<>>
  /\ qRef = <<>>
  /\ qOut = <<>>

NotParsed == Thrown("", <<>>)

ParseIdle ==
  /\ sPc = "idle"
  /\ sZip = Zip(NoFiles)
  /\ sResult = NotParsed

NormIdle ==
  /\ nPc = "idle"
  /\ nZip = Zip(NoFiles)
  /\ nItem = [fullPath |-> <<>>]
  /\ nOut = Rejected("")

\* useRef(false), useState(null), useState(true), useState(null), useState(0);
\* useState(false); no timer, nothing reported, loadEntireBook not called, not
\* unmounted, nothing scrolled into view
Mounted ==
  /\ initRef = FALSE
  /\ bookContent = None
  /\ loading = TRUE
  /\ error = None
  /\ loadPending = FALSE
  /\ progress = Integer(0)
  /\ saveTimer = None
  /\ emitted = None
  /\ loads = 0
  /\ closed = FALSE
  /\ showToc = FALSE
  /\ scrolledTo = None

BookIdle == bookData = None /\ Mounted

\* the useState initial values of the per-chapter Reader, nothing pending
ChapterMounted ==
  /\ epubData = None
  /\ chapterIndex = Integer(0)
  /\ chapterHtml = <<>>
  /\ chapterLoading = FALSE
  /\ epubLoading = TRUE
  /\ epubError = None
  /\ currentLabel = <<>>
  /\ parsesPending = 0
  /\ chapterLoads = <<>>
  /\ parses = 0
  /\ persisted = None
  /\ unmounted = FALSE

ChapterIdle == epubBuffer = None /\ savedCfi = Undefined /\ ChapterMounted

(***************************************************************************)
(* Specification SpecPath: one call resolveHref(basePath, href) on inputs  *)
(* drawn from all token sequences up to the bounds.                        *)
(***************************************************************************)
PathChars == {"/", ".", "a", "b"}

StringsUpTo(n) == UNION {[1..k -> PathChars] : k \in 0..n}

InitPath == PathIdle /\ ParseIdle /\ NormIdle /\ BookIdle /\ ChapterIdle /\ LibraryIdle

CallResolveHref ==
  /\ pPc = "idle"
  /\ \E b \in StringsUpTo(MaxBaseLen), r \in StringsUpTo(MaxRefLen) :
       /\ pBase' = b
       /\ pRef' = r
       /\ pOut' = resolveHref(b, r)
  /\ pPc' = "returned"
  /\ UNCHANGED <<qRef, qOut, parseVars, normVars, bookVars, chapterVars, libraryVars>>

NextPath == CallResolveHref

SpecPath == InitPath /\ [][NextPath]_vars

(***************************************************************************)
(* Specification SpecCompose: resolveHref is called on a base and a        *)
(* relative reference, and then on its own result and a second relative    *)
(* reference, as when a document found through the package refers to       *)
(* another one.  References are built from segments joined by '/'.         *)
(***************************************************************************)
OrdinarySegments == {<<"a">>, <<"b">>}
Segments == {<<"a">>, Dot, DotDot}

ComposeBases == {join(segs, "/") : segs \in SeqsUpTo(OrdinarySegments, 2)}
RelativeRefs == {join(segs, "/") : segs \in SeqsUpTo(Segments, MaxSegs) \ {<<>>}}

ResolveFirst ==
  /\ pPc = "idle"
  /\ \E b \in ComposeBases, r \in RelativeRefs :
       /\ pBase' = b
       /\ pRef' = r
       /\ pOut' = resolveHref(b, r)
  /\ pPc' = "returned"
  /\ UNCHANGED <<qRef, qOut, parseVars, normVars, bookVars, chapterVars, libraryVars>>

ResolveSecond ==
  /\ pPc = "returned"
  /\ \E r \in RelativeRefs :
       /\ qRef' = r
       /\ qOut' = resolveHref(pOut, r)
  /\ pPc' = "composed"
  /\ UNCHANGED <<pBase, pRef, pOut, parseVars, normVars, bookVars, chapterVars, libraryVars>>

NextCompose == ResolveFirst \/ ResolveSecond

SpecCompose == InitPath /\ [][NextCompose]_vars

(***************************************************************************)
(* Specification SpecParse: parseStructure is called once on an archive.   *)
(***************************************************************************)
ParseArchives(maxItems, maxItemrefs, maxPoints, maxLinks) ==
  PackageArchives(maxItems, maxItemrefs) \cup OpenArchives \cup NavArchives(maxPoints, maxLinks)

InitParse ==
  /\ sPc = "idle"
  /\ sZip \in ParseArchives(MaxItems, MaxItemrefs, MaxPoints, MaxLinks)
  /\ sResult = NotParsed
  /\ PathIdle
  /\ NormIdle
  /\ BookIdle
  /\ ChapterIdle
  /\ LibraryIdle

CallParseStructure ==
  /\ sPc = "idle"
  /\ sResult' = parseStructure(sZip)
  /\ sPc' = "settled"
  /\ UNCHANGED <<sZip, pathVars, normVars, bookVars, chapterVars, libraryVars>>

NextParse == CallParseStructure

SpecParse == InitParse /\ [][NextParse]_vars

(***************************************************************************)
(* Specification SpecNorm: the content normalizer is called once, as       *)
(* loadSpineItem or as loadChapter, on a chapter of an archive.            *)
(***************************************************************************)
InitNorm ==
  /\ nPc = "idle"
  /\ nZip \in ChapterArchives(MaxBlocks)
  /\ nItem = [fullPath |-> ChapterPath]
  /\ nOut = Rejected("")
  /\ PathIdle
  /\ ParseIdle
  /\ BookIdle
  /\ ChapterIdle
  /\ LibraryIdle

CallLoadSpineItem ==
  /\ nPc = "idle"
  /\ nOut' = loadSpineItem(nZip, nItem)
  /\ nPc' = "loadSpineItem"
  /\ UNCHANGED <<nZip, nItem, pathVars, parseVars, bookVars, chapterVars, libraryVars>>

CallLoadChapter ==
  /\ nPc = "idle"
  /\ nOut' = loadChapter(nZip, nItem)
  /\ nPc' = "loadChapter"
  /\ UNCHANGED <<nZip, nItem, pathVars, parseVars, bookVars, chapterVars, libraryVars>>

NextNorm == CallLoadSpineItem \/ CallLoadChapter

SpecNorm == InitNorm /\ [][NextNorm]_vars

(***************************************************************************)
(* Specification SpecBook: the Reader of Reader.jsx is mounted with a book *)
(* and loads it; the user scrolls, the debounced save reports the progress *)
(* to the parent, which renders the Reader again with a fresh bookData     *)
(* object, and the user goes back to the library.                          *)
(***************************************************************************)
Buffers == BookArchives \cup TocBookArchives \cup OpenArchives \cup {CorruptZip}

InitBook ==
  /\ bookData \in {None} \cup {Some(z) : z \in Buffers}
  /\ Mounted
  /\ PathIdle
  /\ ParseIdle
  /\ NormIdle
  /\ ChapterIdle
  /\ LibraryOpened

DefaultLoadError == "Could not load this book."

otherThanBook == <<pathVars, parseVars, normVars, chapterVars, now>>

\* the guard of the load effect without the ref
skipLoad_noRef == bookData = None

\* if (initRef.current || !bookData?.buffer) return;
skipLoad == initRef \/ bookData = None

\* the load effect (Reader.jsx 256-272) up to the call of loadEntireBook
loadEffect ==
  IF skipLoad
  THEN UNCHANGED <<initRef, loading, error, loadPending, loads>>
  ELSE /\ initRef' = TRUE
       /\ loading' = TRUE
       /\ error' = None
       /\ loadPending' = TRUE
       /\ loads' = loads + 1

\* a render with a bookData object the Reader has not seen, which is the first
\* render and every later render of App (part_000 171-176 builds the object
\* anew each time): the load effect runs
LoadEffect ==
  /\ ~closed
  /\ loadEffect
  /\ UNCHANGED <<bookData, bookContent, progress, saveTimer, emitted, closed, showToc,
                 scrolledTo, library, otherThanBook>>

\* .catch shows the default message whatever the error says
onLoadSettled_genericMessage(result) ==
  /\ IF result.ok
     THEN /\ bookContent' = Some([html |-> result.html, toc |-> result.toc,
                                   sections |-> result.sections])
          /\ error' = error
          /\ saveTimer' = Some(progress)
     ELSE /\ error' = Some(DefaultLoadError)
          /\ bookContent' = bookContent
          /\ saveTimer' = saveTimer
  /\ loading' = FALSE

\* .then leaves the spinner on
onLoadSettled_stillLoading(result) ==
  /\ IF result.ok
     THEN /\ bookContent' = Some([html |-> result.html, toc |-> result.toc,
                                   sections |-> result.sections])
          /\ error' = error
          /\ saveTimer' = Some(progress)
     ELSE /\ error' = Some(IF result.error = "" THEN DefaultLoadError ELSE result.error)
          /\ bookContent' = bookContent
          /\ saveTimer' = saveTimer
  /\ loading' = IF result.ok THEN loading ELSE FALSE

\* .then and .catch of the load effect; with the content set, the save effect
\* (Reader.jsx 294-300) of the next render sets its timer
onLoadSettled(result) ==
  /\ IF result.ok
     THEN /\ bookContent' = Some([html |-> result.html, toc |-> result.toc,
                                   sections |-> result.sections])
          /\ error' = error
          /\ saveTimer' = Some(progress)
     ELSE /\ error' = Some(IF result.error = "" THEN DefaultLoadError ELSE result.error)
          /\ bookContent' = bookContent
          /\ saveTimer' = saveTimer
  /\ loading' = FALSE

\* the promise of loadEntireBook settles
LoadSettled ==
  /\ ~closed
  /\ loadPending
  /\ onLoadSettled(loadEntireBook(bookData[1]))
  /\ loadPending' = FALSE
  /\ UNCHANGED <<bookData, initRef, progress, emitted, loads, closed, showToc, scrolledTo,
                 library, otherThanBook>>

ScrollTops == (-1)..MaxScrollTop
Extents == 0..MaxExtent

\* Math.max(0, pct) alone
clamp_noUpper(pct) == max(Integer(0), pct)

\* Math.min(1, Math.max(0, pct))
clamp(pct) == min(Integer(1), max(Integer(0), pct))

\* max > 0 ? el.scrollTop / max : 0, for max = scrollHeight - clientHeight
scrollFraction(scrollTop, extent) ==
  IF extent > 0 THEN divide(scrollTop, extent) ELSE Integer(0)

\* setProgress(pct) and, when the value changed, the save effect of the next
\* render: the pending timer is cleared and, with content, a new one is set
setProgress(pct) ==
  /\ progress' = pct
  /\ saveTimer' = IF pct = progress THEN saveTimer
                  ELSE IF bookContent = None THEN None
                  ELSE Some(pct)

\* a scroll event of the content container and its animation frame (Reader.jsx
\* 279-288); while the spinner or the error screen is shown there is nothing
\* to scroll
Scroll ==
  /\ ~closed
  /\ ~loading
  /\ error = None
  /\ \E scrollTop \in ScrollTops, extent \in Extents :
       setProgress(clamp(scrollFraction(scrollTop, extent)))
  /\ UNCHANGED <<bookData, initRef, bookContent, loading, error, loadPending, emitted,
                 loads, closed, showToc, scrolledTo, library, otherThanBook>>

\* the timer of the save effect fires after 500 ms: onUpdateProgress(progress,
\* progress) with the value of the render that set it; handleUpdateProgress
\* (part_000 132-136) updates the library, App renders the Reader again with a
\* fresh bookData, and the load effect runs
SaveTimerFires ==
  /\ ~closed
  /\ saveTimer # None
  /\ emitted' = Some([cfi |-> saveTimer[1], progress |-> saveTimer[1]])
  /\ handleUpdateProgress(saveTimer[1], saveTimer[1])
  /\ saveTimer' = None
  /\ loadEffect
  /\ UNCHANGED <<bookData, bookContent, progress, closed, showToc, scrolledTo, otherThanBook>>

\* handleBack (part_000 138-140): the Reader is unmounted and the cleanup of the
\* save effect clears the pending timer
Close ==
  /\ ~closed
  /\ bookData # None
  /\ closed' = TRUE
  /\ saveTimer' = None
  /\ UNCHANGED <<bookData, initRef, bookContent, loading, error, loadPending, progress,
                 emitted, loads, showToc, scrolledTo, library, otherThanBook>>

\* the table-of-contents button of the top bar (Reader.jsx 446); the error
\* screen has no top bar
ToggleToc ==
  /\ ~closed
  /\ error = None
  /\ showToc' = ~showToc
  /\ UNCHANGED <<bookData, initRef, bookContent, loading, error, loadPending, progress,
                 saveTimer, emitted, loads, closed, scrolledTo, library, otherThanBook>>

\* the text of a button of the TocTree: item.label || 'Untitled'
Untitled == <<"Untitled">>
buttonText(item) == IF item.label = <<>> THEN Untitled ELSE item.label

\* the hrefs of the buttons TocTree renders for a tree, subitems included
RECURSIVE tocHrefs(_)
tocHrefs(items) ==
  UNION {{items[k].href} \cup tocHrefs(items[k].subitems) : k \in 1..Len(items)}

\* bookContent.sections.find((s) => s.fullPath.split('#')[0] === basePath)
findSection(sections, basePath) ==
  findItem(SelectSeq(sections, LAMBDA sec : stripFragment(sec.fullPath) = basePath))

\* goToHref of Reader.jsx (303-316), called by a button of the TocTree, which is
\* rendered in the open panel from bookContent.toc
scrollToHref(href) ==
  IF bookContent = None
  THEN UNCHANGED <<scrolledTo, showToc>>
  ELSE /\ scrolledTo' =
            LET section == findSection(bookContent[1].sections, stripFragment(href))
            IN IF section # <<>> THEN Some(section[1].id) ELSE scrolledTo
       /\ showToc' = FALSE

SelectTocLink ==
  /\ ~closed
  /\ error = None
  /\ showToc
  /\ bookContent # None
  /\ \E href \in tocHrefs(bookContent[1].toc) : scrollToHref(href)
  /\ UNCHANGED <<bookData, initRef, bookContent, loading, error, loadPending, progress,
                 saveTimer, emitted, loads, closed, library, otherThanBook>>

NextBook ==
  LoadEffect \/ LoadSettled \/ Scroll \/ SaveTimerFires \/ Close \/ ToggleToc \/ SelectTocLink

SpecBook == InitBook /\ [][NextBook]_vars

\* LoadSettled is enabled exactly while a load is pending in an open reader, and
\* it always changes loadPending
LoadSettledEnabled == loadPending /\ ~closed

\* weak fairness of LoadSettled, written out with its enabling condition
LoadSettledFair ==
  \/ []<>(~LoadSettledEnabled)
  \/ []<><<LoadSettled>>_vars

\* effects run after the render, promises of archive reads settle, and a timer
\* that is not cleared fires
SpecBookFair ==
  /\ SpecBook
  /\ WF_vars(LoadEffect)
  /\ WF_vars(SaveTimerFires)
  /\ LoadSettledFair

(***************************************************************************)
(* Specification SpecChapter: the Reader of Library.jsx is mounted with a  *)
(* book; it parses it, loads the current chapter, reports the position to  *)
(* the parent (which renders it again with a fresh bookData object), and   *)
(* the user moves between chapters.                                        *)
(***************************************************************************)
\* bookMeta.currentCfi: absent, a string, integers in and out of the spine, and
\* a fraction as the whole-book Reader stores it
SavedPositions == {Undefined, StringValue, Integer(-1), Integer(0), Integer(1), Integer(7), Number(1, 2)}
Hrefs == {Chap1Path, Chap2Path \o <<"#", "s2">>, <<"OEBPS", "/", "none.xhtml">>}

\* the books the per-chapter Reader is given: each chapter absent, damaged or
\* readable, and the archives that fail to open
EpubBuffers ==
  {BookArchive(XmlEntry(BookPackage), c, ChapterEntries[3]) : c \in {ChapterEntries[k] : k \in 1..3}}
    \cup {BookArchive(XmlEntry(BookPackage), ChapterEntries[3], c) : c \in {ChapterEntries[k] : k \in 1..2}}
    \cup OpenArchives \cup {CorruptZip}

InitChapter ==
  /\ epubBuffer \in {Some(z) : z \in EpubBuffers}
  /\ savedCfi \in SavedPositions
  /\ ChapterMounted
  /\ PathIdle
  /\ ParseIdle
  /\ NormIdle
  /\ BookIdle
  /\ LibraryOpened

otherThanChapter == <<pathVars, parseVars, normVars, bookVars, now>>

\* the parse effect (Library.jsx 400-422) up to the call of parseEpub
parseEffect ==
  /\ epubLoading' = TRUE
  /\ epubError' = None
  /\ parsesPending' = parsesPending + 1
  /\ parses' = parses + 1

\* the chapter load effect (Library.jsx 425-461) up to the call of loadChapter,
\* run for the epubData and chapterIndex of the render
chapterEffect(data, index) ==
  IF data # None /\ isIndex(index, Len(data[1].spine))
  THEN /\ chapterLoading' = TRUE
       /\ chapterLoads' = Append(chapterLoads, [index |-> index.num])
  ELSE UNCHANGED <<chapterLoading, chapterLoads>>

\* the first render: the parse effect runs
Mount ==
  /\ ~unmounted
  /\ parses = 0
  /\ epubBuffer # None
  /\ parseEffect
  /\ UNCHANGED <<epubBuffer, savedCfi, epubData, chapterIndex, chapterHtml, chapterLoading,
                 currentLabel, chapterLoads, persisted, unmounted, library, otherThanChapter>>

\* .then and .catch of the parse effect, and the load effect of the next render
onParseSettled(result) ==
  IF result.ok
  THEN /\ epubData' = Some([spine |-> result.spine, toc |-> result.toc])
       /\ chapterIndex' = startIdx(savedCfi, Len(result.spine))
       /\ epubLoading' = FALSE
       /\ epubError' = epubError
       /\ chapterEffect(Some([spine |-> result.spine, toc |-> result.toc]),
                        startIdx(savedCfi, Len(result.spine)))
  ELSE /\ epubError' = Some(IF result.error = "" THEN DefaultParseError ELSE result.error)
       /\ epubLoading' = FALSE
       /\ UNCHANGED <<epubData, chapterIndex, chapterLoading, chapterLoads>>

\* a promise of parseEpub settles; the state setters of an unmounted component
\* do nothing
ParseSettled ==
  /\ parsesPending > 0
  /\ IF unmounted
     THEN UNCHANGED <<epubData, chapterIndex, epubLoading, epubError, chapterLoading,
                      chapterLoads>>
     ELSE onParseSettled(parseEpub(epubBuffer[1]))
  /\ parsesPending' = parsesPending - 1
  /\ UNCHANGED <<epubBuffer, savedCfi, chapterHtml, currentLabel, parses, persisted,
                 unmounted, library, otherThanChapter>>

Remove(seq, k) == SubSeq(seq, 1, k - 1) \o SubSeq(seq, k + 1, Len(seq))

\* .then of the load effect for the index it was started for: the markup, the
\* label and the progress report; handleUpdateProgress updates the library and
\* the parent renders the Reader with a fresh bookData, so the parse effect
\* runs again.  .catch shows the placeholder.
onChapterSettled(index, result) ==
  IF result.ok
  THEN /\ chapterHtml' = result.html
       /\ currentLabel' = labelOf(epubData[1], index)
       /\ persisted' = Some([cfi |-> index, progress |-> pctOf(epubData[1], index)])
       /\ handleUpdateProgress(index, pctOf(epubData[1], index))
       /\ parseEffect
  ELSE /\ chapterHtml' = ChapterFailed
       /\ UNCHANGED <<currentLabel, persisted, library, epubLoading, epubError, parsesPending,
                      parses>>

\* the same in a Reader that was unmounted meanwhile: the setters do nothing,
\* the call of onUpdateProgress is made as before, and the parent, which shows
\* the library by now, renders no Reader
onChapterSettledUnmounted(index, result) ==
  /\ IF result.ok
     THEN /\ persisted' = Some([cfi |-> index, progress |-> pctOf(epubData[1], index)])
          /\ handleUpdateProgress(index, pctOf(epubData[1], index))
     ELSE UNCHANGED <<persisted, library>>
  /\ UNCHANGED <<chapterHtml, currentLabel, epubLoading, epubError, parsesPending, parses>>

\* a promise of loadChapter settles
ChapterLoadSettled ==
  \E k \in 1..Len(chapterLoads) :
    /\ (~unmounted
          /\ loadChapter(epubBuffer[1], epubData[1].spine[chapterLoads[k].index + 1]).ok)
         => parses < MaxParses
    /\ IF unmounted
       THEN /\ onChapterSettledUnmounted(
                 chapterLoads[k].index,
                 loadChapter(epubBuffer[1], epubData[1].spine[chapterLoads[k].index + 1]))
            /\ chapterLoading' = chapterLoading
       ELSE /\ onChapterSettled(
                 chapterLoads[k].index,
                 loadChapter(epubBuffer[1], epubData[1].spine[chapterLoads[k].index + 1]))
            /\ chapterLoading' = FALSE
    /\ chapterLoads' = Remove(chapterLoads, k)
    /\ UNCHANGED <<epubBuffer, savedCfi, epubData, chapterIndex, unmounted,
                   otherThanChapter>>

\* setChapterIndex(index) and, when the index changed, the load effect
setChapterIndex(index) ==
  IF index # chapterIndex
  THEN chapterIndex' = index /\ chapterEffect(epubData, index)
  ELSE UNCHANGED <<chapterIndex, chapterLoading, chapterLoads>>

goPrev ==
  /\ ~unmounted
  /\ parses > 0
  /\ Len(chapterLoads) < MaxLoads
  /\ setChapterIndex(prevIndex(chapterIndex))
  /\ UNCHANGED <<epubBuffer, savedCfi, epubData, chapterHtml, epubLoading, epubError,
                 currentLabel, parsesPending, parses, persisted, unmounted,
                 library, otherThanChapter>>

goNext ==
  /\ ~unmounted
  /\ parses > 0
  /\ Len(chapterLoads) < MaxLoads
  /\ setChapterIndex(nextIndex(epubData, chapterIndex))
  /\ UNCHANGED <<epubBuffer, savedCfi, epubData, chapterHtml, epubLoading, epubError,
                 currentLabel, parsesPending, parses, persisted, unmounted,
                 library, otherThanChapter>>

\* the href is matched as it is, fragment and all
jumpTarget_keepFragment(data, index, href) ==
  IF findIndex(data.spine, href) >= 0
  THEN Integer(findIndex(data.spine, href))
  ELSE index

\* the index goToHref(href) leaves: that of the match, or the one it found
jumpTarget(data, index, href) ==
  IF findIndex(data.spine, stripFragment(href)) >= 0
  THEN Integer(findIndex(data.spine, stripFragment(href)))
  ELSE index

goToHrefOf(href) ==
  /\ ~unmounted
  /\ epubData # None
  /\ Len(chapterLoads) < MaxLoads
  /\ setChapterIndex(jumpTarget(epubData[1], chapterIndex, href))
  /\ UNCHANGED <<epubBuffer, savedCfi, epubData, chapterHtml, epubLoading, epubError,
                 currentLabel, parsesPending, parses, persisted, unmounted,
                 library, otherThanChapter>>

goToHref == \E href \in Hrefs : goToHrefOf(href)

\* handleBack (part_000 138-140): the Reader is unmounted; neither effect has a
\* cleanup, so the promises that are pending stay pending
Unmount ==
  /\ ~unmounted
  /\ parses > 0
  /\ unmounted' = TRUE
  /\ UNCHANGED <<epubBuffer, savedCfi, epubData, chapterIndex, chapterHtml, chapterLoading,
                 epubLoading, epubError, currentLabel, parsesPending, chapterLoads, parses,
                 persisted, library, otherThanChapter>>

NextChapter ==
  Mount \/ ParseSettled \/ ChapterLoadSettled \/ goPrev \/ goNext \/ goToHref \/ Unmount

SpecChapter == InitChapter /\ [][NextChapter]_vars

(***************************************************************************)
(* Specification SpecReaders: one of the two Readers is mounted with a     *)
(* book, and runs as in SpecBook or in SpecChapter.                        *)
(***************************************************************************)
InitReaders == InitBook \/ InitChapter

NextReaders == NextBook \/ NextChapter

SpecReaders == InitReaders /\ [][NextReaders]_vars

(***************************************************************************)
(* Specification SpecOpenClose: the whole-book Reader shows a book of the  *)
(* library that was read before, and is closed again without a scroll and  *)
(* without a use of the table of contents.                                 *)
(***************************************************************************)
\* the progress an earlier session stored
StoredProgress == {Number(1, 2), Integer(1)}

\* the library after that session: handleOpenBook (part_000 106-130) opens a
\* book of the library without a call of addBook
ReadLibraries ==
  {updateBook(OpenedLibrary, CurrentPath, [currentCfi |-> p, progress |-> p]) :
     p \in StoredProgress}

InitOpenClose ==
  /\ bookData \in {Some(z) : z \in Buffers}
  /\ Mounted
  /\ library \in ReadLibraries
  /\ now = 0
  /\ PathIdle
  /\ ParseIdle
  /\ NormIdle
  /\ ChapterIdle

NextOpenClose == LoadEffect \/ LoadSettled \/ SaveTimerFires \/ Close

SpecOpenClose == InitOpenClose /\ [][NextOpenClose]_vars

(***************************************************************************)
(* Specification SpecLibrary: the library of useLibrary.js, from the empty *)
(* library of a first start, under addBook, updateBook with the updates of *)
(* handleUpdateProgress, and removeBook, in any order and for any path.    *)
(***************************************************************************)
InitLibrary ==
  /\ LibraryIdle
  /\ PathIdle
  /\ ParseIdle
  /\ NormIdle
  /\ BookIdle
  /\ ChapterIdle

otherThanLibrary == <<pathVars, parseVars, normVars, bookVars, chapterVars>>

\* the positions and progress values the two Readers report
ProgressUpdates ==
  {[currentCfi |-> Integer(0), progress |-> Integer(0)],
   [currentCfi |-> Number(1, 2), progress |-> Number(1, 2)],
   [currentCfi |-> Integer(1), progress |-> Number(1, 2)]}

\* addBook(book), with Date.now() returning t1 and then t2
AddBookOf(book, t1, t2) ==
  /\ library' = addBook(library, book, t1, t2)
  /\ now' = IF existing(library.books, book.path) >= 1 THEN t1 ELSE t2
  /\ UNCHANGED otherThanLibrary

AddBook ==
  \E book \in OpenedBooks : \E t1 \in now..MaxClock : \E t2 \in t1..MaxClock :
    AddBookOf(book, t1, t2)

\* updateBook(path, updates)
UpdateBookOf(path, updates) ==
  /\ library' = updateBook(library, path, updates)
  /\ UNCHANGED <<now, otherThanLibrary>>

UpdateBook == \E path \in Paths : \E updates \in ProgressUpdates : UpdateBookOf(path, updates)

\* removeBook(path)
RemoveBookOf(path) ==
  /\ library' = removeBook(library, path)
  /\ UNCHANGED <<now, otherThanLibrary>>

RemoveBook == \E path \in Paths : RemoveBookOf(path)

NextLibrary == AddBook \/ UpdateBook \/ RemoveBook

SpecLibrary == InitLibrary /\ [][NextLibrary]_vars

(***************************************************************************)
(* C5.  resolveHref is the reference resolver of the specification: a      *)
(* reference beginning with "/" is normalized on its own, any other        *)
(* non-empty reference is appended to the directory of the base (the text  *)
(* up to and including its last "/") and normalized: empty and "."         *)
(* segments dropped, each ".." removing the nearest retained segment       *)
(* before it, a ".." with nothing to remove dropped without error.         *)
(* The reference normal form is computed from the right with a count of    *)
(* pending ".." segments, not with the stack of the code.                  *)
(***************************************************************************)
RECURSIVE RefNormalForm(_, _)
RefNormalForm(segs, pending) ==
  IF segs = <<>> THEN <<>>
  ELSE LET last == segs[Len(segs)]
           front == SubSeq(segs, 1, Len(segs) - 1)
       IN IF last = DotDot THEN RefNormalForm(front, pending + 1)
          ELSE IF last = Dot \/ last = <<>> THEN RefNormalForm(front, pending)
          ELSE IF pending > 0 THEN RefNormalForm(front, pending - 1)
          ELSE Append(RefNormalForm(front, 0), last)

RefDirectory(base) ==
  IF \E i \in 1..Len(base) : base[i] = "/"
  THEN SubSeq(base, 1, CHOOSE i \in 1..Len(base) :
                          base[i] = "/" /\ \A j \in (i + 1)..Len(base) : base[j] # "/")
  ELSE <<>>

RefResolve(base, ref) ==
  LET text == IF ref[1] = "/" THEN ref ELSE RefDirectory(base) \o ref
  IN join(RefNormalForm(split(text, "/"), 0), "/")

C5_ResolveHrefIsReference ==
  (pPc = "returned" /\ pRef # <<>>) => pOut = RefResolve(pBase, pRef)

\* a ".." with nothing to pop was resolved by a call with a base directory
C5_Witness ==
  /\ pPc = "returned"
  /\ pBase = <<"a", "/", "b">>
  /\ pRef = <<".", ".", "/", ".">> \o <<>>
  /\ pOut = <<>>

(***************************************************************************)
(* What the claims about parseStructure read off the input archive.        *)
(***************************************************************************)
\* the package path the container descriptor declares
DeclaredOpfPath(zip) == file(zip, ContainerPath).root.kids[1].kids[1].attrs["full-path"]
\* the item and itemref elements of a well-formed package document, in document order
DeclaredItems(zip) == file(zip, DeclaredOpfPath(zip)).root.kids[1].kids
DeclaredItemrefs(zip) == file(zip, DeclaredOpfPath(zip)).root.kids[2].kids
\* the last item element declared with this id
DeclaredItem(zip, id) ==
  LET items == DeclaredItems(zip)
  IN items[CHOOSE i \in 1..Len(items) :
             /\ items[i].attrs["id"] = id
             /\ \A j \in (i + 1)..Len(items) : items[j].attrs["id"] # id]
IsDeclared(zip, id) ==
  \E i \in 1..Len(DeclaredItems(zip)) : DeclaredItems(zip)[i].attrs["id"] = id

Parsed == sPc = "settled" /\ sResult.ok
ParsedWellFormedPackage ==
  Parsed /\ file(sZip, DeclaredOpfPath(sZip)).wf /\ file(sZip, ContainerPath).wf

LegacyToc == tocFromNcx(sZip, sResult.manifest).toc
ModernToc == tocFromNav(sZip, sResult.manifest).toc
ModernListed == \E k \in 1..Len(sResult.manifest) : sResult.manifest[k].id = <<"nav">>
ModernRead == \E k \in 1..Len(sResult.reads) : sResult.reads[k] = NavPath

OneLinkArchive ==
  NavArchive(FALSE, TRUE, NoEntry, <<XmlEntry(NavDoc(<<TocNav(OneLink)>>))>>)

C4_LegacyTocWinsWhenNonEmpty ==
  Parsed =>
    /\ Len(LegacyToc) >= 1 => (sResult.toc = LegacyToc /\ ~ModernRead)
    /\ Len(LegacyToc) = 0 => sResult.toc = ModernToc
    /\ sZip = OneLinkArchive =>
         sResult.toc = <<[label |-> <<"Chapter One">>,
                          href |-> <<"OEBPS", "/", "ch1.xhtml">>,
                          subitems |-> <<>>]>>

\* both sources are in the archive with entries: the legacy tree is the result
C4_Witness ==
  /\ Parsed
  /\ ModernListed
  /\ hasFile(sZip, NavPath)
  /\ Len(ModernToc) >= 1
  /\ Len(LegacyToc) >= 1
  /\ sResult.toc = LegacyToc
  /\ sResult.toc # ModernToc

(***************************************************************************)
(* C6.  In a parsed BookStructure no resolved path (manifest fullPath,     *)
(* spine fullPath, NavNode href with its fragment stripped) contains a     *)
(* ".", a ".." or an empty segment.                                        *)
(***************************************************************************)
CleanPath(path) ==
  path = <<>> \/ \A k \in 1..Len(split(path, "/")) :
                   split(path, "/")[k] \notin {<<>>, Dot, DotDot}

RECURSIVE CleanToc(_)
CleanToc(items) ==
  \A k \in 1..Len(items) :
    /\ CleanPath(stripFragment(items[k].href))
    /\ CleanToc(items[k].subitems)

C6_ResolvedPathsAreClean ==
  Parsed =>
    /\ \A k \in 1..Len(sResult.manifest) : CleanPath(sResult.manifest[k].fullPath)
    /\ \A k \in 1..Len(sResult.spine) : CleanPath(sResult.spine[k].fullPath)
    /\ CleanToc(sResult.toc)

(***************************************************************************)
(* C9.  Navigation parsing never fails the open: when the container        *)
(* descriptor and the package document are readable, parseStructure        *)
(* resolves and its table of contents is a (possibly empty) sequence,      *)
(* whatever the state of the navigation sources.                           *)
(***************************************************************************)
PackageReadable(zip) ==
  /\ hasFile(zip, ContainerPath)
  /\ file(zip, ContainerPath).readable
  /\ file(zip, ContainerPath).wf
  /\ Len(file(zip, ContainerPath).root.kids) >= 1
  /\ hasAttribute(file(zip, ContainerPath).root.kids[1].kids[1], "full-path")
  /\ hasFile(zip, DeclaredOpfPath(zip))
  /\ file(zip, DeclaredOpfPath(zip)).readable

C9_NavigationNeverFailsTheOpen ==
  (sPc = "settled" /\ PackageReadable(sZip)) =>
    /\ sResult.ok
    /\ DOMAIN sResult.toc = 1..Len(sResult.toc)

\* both navigation sources are listed and both entries are damaged
C9_Witness ==
  /\ sPc = "settled"
  /\ hasFile(sZip, NcxPath) /\ ~file(sZip, NcxPath).readable
  /\ hasFile(sZip, NavPath) /\ ~file(sZip, NavPath).readable
  /\ Len(sResult.reads) = 4
  /\ sResult.ok
  /\ sResult.toc = <<>>

(***************************************************************************)
(* What the claims about the normalizer read off the call and its result.  *)
(***************************************************************************)
Normalized == nPc # "idle" /\ hasFile(nZip, ChapterPath) /\ nOut.ok
NormalizedWellFormed == Normalized /\ file(nZip, ChapterPath).wf

\* the start tags of the returned markup that carry foreign styling
StyleTags(html) ==
  {k \in 1..Len(html) :
     /\ html[k].kind = "start"
     /\ \/ html[k].tag = "style"
        \/ /\ html[k].tag = "link"
           /\ "rel" \in DOMAIN html[k].attrs
           /\ html[k].attrs["rel"] = <<"stylesheet">>
        \/ "style" \in DOMAIN html[k].attrs}

(***************************************************************************)
(* C1.  For a well-formed input document the markup returned by            *)
(* loadSpineItem / loadChapter has no style element, no stylesheet link    *)
(* and no inline style attribute, wherever those stood in the input (head  *)
(* or content root, at any depth).                                         *)
(***************************************************************************)
C1_NormalizedMarkupHasNoStyling ==
  NormalizedWellFormed => StyleTags(nOut.html) = {}

\* a chapter with styling in the head, on the body, and at the first, second
\* and third level of the content root was normalized to non-empty markup
C1_Witness ==
  /\ nPc = "loadChapter"
  /\ nOut.ok
  /\ nOut.html # <<>>
  /\ nZip = ChapterArchive(
       <<XmlEntry(WithBody(
           El("head", NoAttrs,
              <<El("title", NoAttrs, <<Text(<<"One">>)>>), StyleEl, StylesheetLink>>),
           <<El("div", NoAttrs, <<StyleEl, El("span", "style" :> Css, <<Text(<<"deep">>)>>)>>),
             El("div", "style" :> Css, <<El("section", NoAttrs, <<StylesheetLink>>)>>)>>))>>,
       <<ImageEntry("PNG", TRUE)>>)

(***************************************************************************)
(* C2.  Every raster (img src) and vector (image xlink:href / href)        *)
(* reference of the content root that does not start with "data:" is,      *)
(* after normalization, the inline data of the archive entry found at the  *)
(* reference resolved against the spine item's directory, or, when the     *)
(* archive has no such entry, the original reference; when the entry is    *)
(* there and cannot be read or encoded the reference is the original one;  *)
(* no other value is written.                                              *)
(***************************************************************************)
InlineData(entry) == <<DataScheme, entry.bytes>>

LookupPath(ref) ==
  join(RefNormalForm(split(RefDirectory(nItem.fullPath) \o ref, "/"), 0), "/")

\* the reference of an img or image element, or of its start tag
Reference(e) ==
  LET at(name) == IF name \in DOMAIN e.attrs THEN e.attrs[name] ELSE Null
  IN IF e.tag = "img" THEN at("src")
     ELSE IF at("xlink:href") \notin {Null, <<>>} THEN at("xlink:href")
     ELSE at("href")

IsImage(e) == e.tag \in {"img", "image"}

\* the image elements of the input's content root, in document order
InputImages ==
  LET entry == file(nZip, ChapterPath)
      root == contentRoot(Document(IF entry.wf THEN entry.root ELSE entry.html))
      all == descendants(root)
  IN SelectSeq([k \in 1..Len(all) |-> nodeAt(root, all[k])], IsImage)

\* the image start tags of the returned markup, in order
OutputImages ==
  SelectSeq(nOut.html, LAMBDA tk : tk.kind = "start" /\ IsImage(tk))

Expected(ref) ==
  LET path == LookupPath(ref)
  IN IF ~hasFile(nZip, path) THEN ref
     ELSE IF file(nZip, path).readable /\ file(nZip, path).encodable
     THEN InlineData(file(nZip, path))
     ELSE ref

C2_ImageReferencesInlinedOrUntouched ==
  Normalized =>
    /\ Len(OutputImages) = Len(InputImages)
    /\ \A k \in 1..Len(InputImages) :
         LET ref == Reference(InputImages[k])
         IN (ref # Null /\ ~startsWith(ref, DataScheme)) =>
              Reference(OutputImages[k]) = Expected(ref)

(***************************************************************************)
(* What the claims about the whole-book Reader read off its state and the  *)
(* archive it was given.                                                   *)
(***************************************************************************)
\* the load effect ran and its promise settled
LoadDone == initRef /\ ~loadPending
Book == bookData[1]

\* the error kinds of the specification, by message
MissingContainerMessages == {ErrMissingContainer}
MissingPackageMessages == {ErrNoRootfile, ErrMissingOpf}

\* the Reader shows the error screen with one message of the given kind
ErrorState(messages) ==
  /\ Len(error) = 1
  /\ error[1] \in messages
  /\ bookContent = None
  /\ loading = FALSE

\* the rootfile elements of a well-formed container descriptor
Rootfiles(zip) ==
  LET doc == Document(file(zip, ContainerPath).root)
      all == descendants(doc)
  IN SelectSeq([k \in 1..Len(all) |-> nodeAt(doc, all[k])], LAMBDA e : e.tag = "rootfile")

WellFormedDescriptor(zip) ==
  /\ zip.valid
  /\ hasFile(zip, ContainerPath)
  /\ file(zip, ContainerPath).readable
  /\ file(zip, ContainerPath).wf

\* the descriptor names a package path
NamesPackage(zip) ==
  /\ WellFormedDescriptor(zip)
  /\ Rootfiles(zip) # <<>>
  /\ "full-path" \in DOMAIN Rootfiles(zip)[1].attrs
  /\ Rootfiles(zip)[1].attrs["full-path"] # <<>>

PackagePath(zip) == Rootfiles(zip)[1].attrs["full-path"]

(***************************************************************************)
(* C7.  Opening an archive fails fast with the dedicated error: without a  *)
(* container descriptor entry the open rejects with the missing-container  *)
(* error and no entry other than the descriptor is looked up; with a       *)
(* descriptor that names no package path, or names an entry the archive    *)
(* does not have, it rejects with the missing-package-document error; in   *)
(* each case the Reader ends with one message, no book content and loading *)
(* false.                                                                  *)
(***************************************************************************)
C7_OpenFailsFastWithDedicatedError ==
  (LoadDone /\ Book.valid) =>
    /\ ~hasFile(Book, ContainerPath) =>
         /\ ErrorState(MissingContainerMessages)
         /\ \A k \in 1..Len(parseStructure(Book).reads) :
              parseStructure(Book).reads[k] = ContainerPath
    /\ (WellFormedDescriptor(Book) /\ ~NamesPackage(Book)) =>
         ErrorState(MissingPackageMessages)
    /\ (NamesPackage(Book) /\ ~hasFile(Book, PackagePath(Book))) =>
         ErrorState(MissingPackageMessages)

\* the descriptor named OEBPS/content.opf, the archive had no such entry, and
\* the Reader ended in the error state
C7_Witness ==
  /\ LoadDone
  /\ Book = Zip(ContainerPath :> ContainerFor(OpfPath))
  /\ error = Some(ErrMissingOpf)
  /\ bookContent = None
  /\ ~loading

(***************************************************************************)
(* C8.  When the package document entry is there and is not well-formed    *)
(* XML, the open fails: the Reader ends in the error state with one        *)
(* message and no book content, and no book is opened from what the parser *)
(* had built.                                                              *)
(***************************************************************************)
MalformedPackage(zip) ==
  /\ NamesPackage(zip)
  /\ hasFile(zip, PackagePath(zip))
  /\ file(zip, PackagePath(zip)).readable
  /\ ~file(zip, PackagePath(zip)).wf

C8_MalformedPackageFailsTheOpen ==
  (LoadDone /\ Book.valid /\ MalformedPackage(Book)) =>
    /\ Len(error) = 1
    /\ bookContent = None
    /\ loading = FALSE

(***************************************************************************)
(* C10.  After a successful open, a failure while reading or normalizing   *)
(* one spine item is no book-level error.  In whole-book mode              *)
(* loadEntireBook resolves and the Reader receives the fragment of every   *)
(* other spine item: the error stays unset, the book content is set, and   *)
(* each content document that can be read and is not blank has its section.*)
(* In per-chapter mode the error stays unset and the chapter shows a       *)
(* placeholder.                                                            *)
(***************************************************************************)
OpenSucceeds(zip) == zip.valid /\ parseStructure(zip).ok

IsContentDocument(item) == item.mediaType \in {XhtmlMediaType, HtmlMediaType}

\* the spine positions (zero-based) whose fragment the Reader is to receive
Loadable(zip) ==
  {i \in 0..(Len(parseStructure(zip).spine) - 1) :
     LET item == parseStructure(zip).spine[i + 1]
     IN /\ IsContentDocument(item)
        /\ hasFile(zip, item.fullPath)
        /\ file(zip, item.fullPath).readable
        /\ ~isBlank(normalize(zip, item))}

HasSection(content, zip, i) ==
  \E k \in 1..Len(content.sections) :
    /\ content.sections[k].id = <<"sec-", ToString(i)>>
    /\ content.sections[k].html = normalize(zip, parseStructure(zip).spine[i + 1])

C10_SpineItemFailureIsNoBookError ==
  (LoadDone /\ OpenSucceeds(Book)) =>
    /\ error = None
    /\ bookContent # None
    /\ \A i \in Loadable(Book) : HasSection(bookContent[1], Book, i)

\* per-chapter mode: once the book is open the error stays unset, and what is
\* shown is nothing yet, the markup of a chapter, or one of the two placeholders
ShownChapters ==
  {<<>>, ChapterNotFound, ChapterFailed}
    \cup {loadChapter(epubBuffer[1], epubData[1].spine[k]).html :
            k \in 1..Len(epubData[1].spine)}

PerChapterFailureShowsPlaceholder ==
  epubData # None => epubError = None /\ chapterHtml \in ShownChapters

\* the load of a damaged chapter settled: its placeholder is shown, no error
PerChapterFailureSeen ==
  /\ epubData # None
  /\ chapterHtml = ChapterFailed
  /\ chapterLoads = <<>>
  /\ ~chapterLoading
  /\ epubError = None

(***************************************************************************)
(* C11.  A spine position whose resolved path is no entry of the archive   *)
(* is delivered to the renderer as a not-found placeholder at that         *)
(* position.  In whole-book mode: when the book content is set, it holds,  *)
(* for every content document of the spine that the archive does not have, *)
(* a section with the identifier of that spine position whose markup       *)
(* contains the placeholder text.                                          *)
(***************************************************************************)
\* the spine positions (zero-based) of content documents the archive lacks
Dangling(zip) ==
  {i \in 0..(Len(parseStructure(zip).spine) - 1) :
     /\ IsContentDocument(parseStructure(zip).spine[i + 1])
     /\ ~hasFile(zip, parseStructure(zip).spine[i + 1].fullPath)}

ShowsNotFound(html) ==
  \E k \in 1..Len(html) : html[k].kind = "text" /\ includes(html[k].text, NotFoundPlaceholder)

HasPlaceholderSection(content, i) ==
  \E k \in 1..Len(content.sections) :
    /\ content.sections[k].id = <<"sec-", ToString(i)>>
    /\ ShowsNotFound(content.sections[k].html)

C11_DanglingSpineItemShowsPlaceholder ==
  (LoadDone /\ OpenSucceeds(Book) /\ bookContent # None) =>
    \A i \in Dangling(Book) : HasPlaceholderSection(bookContent[1], i)

\* per-chapter mode: the chapter loaded for such a position is the placeholder
PerChapterDanglingShowsPlaceholder ==
  (epubData # None /\ OpenSucceeds(epubBuffer[1])) =>
    \A i \in Dangling(epubBuffer[1]) :
      loadChapter(epubBuffer[1], epubData[1].spine[i + 1]) = Resolved(ChapterNotFound)

\* and the Reader displays it when that position is the current one
PerChapterDanglingSeen ==
  /\ epubData # None
  /\ chapterIndex = Integer(1)
  /\ 1 \in Dangling(epubBuffer[1])
  /\ chapterHtml = ChapterNotFound

(***************************************************************************)
(* C12.  In per-chapter mode only the latest requested index is shown:     *)
(* when a navigation to index j was requested while the load of another    *)
(* index was pending, then once no load is pending the displayed fragment  *)
(* is that of the current index j and, when its load succeeded, so are the *)
(* position label and the last position handed to onUpdateProgress.  The   *)
(* statement is taken before any later run of the parse effect has reset   *)
(* the index.                                                              *)
(***************************************************************************)
\* what the load effect leaves displayed for a load result
DisplayedFor(result) == IF result.ok THEN result.html ELSE ChapterFailed

\* the load of spine position i (zero-based) of the open book
LoadOf(i) == loadChapter(epubBuffer[1], epubData[1].spine[i + 1])

\* the book is open on a spine position and no load is pending
NoLoadPending ==
  /\ epubData # None
  /\ isIndex(chapterIndex, Len(epubData[1].spine))
  /\ chapterLoads = <<>>

C12_SupersededLoadIsIgnored ==
  (NoLoadPending /\ ~unmounted /\ parses - parsesPending <= 1) =>
    /\ chapterHtml = DisplayedFor(LoadOf(chapterIndex.num))
    /\ LoadOf(chapterIndex.num).ok =>
         /\ currentLabel = labelOf(epubData[1], chapterIndex.num)
         /\ persisted # None
         /\ persisted[1].cfi = chapterIndex.num

(***************************************************************************)
(* C13.  In whole-book mode loadEntireBook is started at most once in a    *)
(* mounted Reader, however often the Reader is rendered again with a fresh *)
(* bookData object, while the load is pending or after it settled, the     *)
(* renders caused by its own progress reports included.                    *)
(***************************************************************************)
C13_LoadEntireBookStartedAtMostOnce == loads <= 1

\* the book was loaded once, and a progress report has since made the parent
\* render the Reader again
C13_Witness ==
  /\ loads = 1
  /\ bookContent # None
  /\ emitted # None

(***************************************************************************)
(* C14.  In whole-book mode the combined output holds one section for each *)
(* spine item that is a content document (application/xhtml+xml or         *)
(* text/html) and for no other, in spine order; the section of spine       *)
(* position i has the identifier made from i and the normalized markup of  *)
(* that item, and the combined markup is the wrapped sections with exactly *)
(* one divider between consecutive sections.                               *)
(***************************************************************************)
\* the spine positions (zero-based) that are content documents
Eligible(zip) ==
  {i \in 0..(Len(parseStructure(zip).spine) - 1) :
     IsContentDocument(parseStructure(zip).spine[i + 1])}

\* a set of positions as the ascending sequence
RECURSIVE Ascending(_)
Ascending(S) ==
  IF S = {} THEN <<>>
  ELSE <<CHOOSE x \in S : \A y \in S : x <= y>>
         \o Ascending(S \ {CHOOSE x \in S : \A y \in S : x <= y})

\* the sections are those of the given positions, in order
SectionsOf(content, zip, positions) ==
  /\ Len(content.sections) = Len(positions)
  /\ \A k \in 1..Len(positions) :
       /\ content.sections[k].id = <<"sec-", ToString(positions[k])>>
       /\ content.sections[k].html
            = loadSpineItem(zip, parseStructure(zip).spine[positions[k] + 1]).html

\* the wrapped sections from the k-th on, a divider before each but the first
RECURSIVE JoinedFrom(_, _)
JoinedFrom(sections, k) ==
  IF k > Len(sections) THEN <<>>
  ELSE (IF k > 1 THEN Separator ELSE <<>>)
         \o <<StartTag(El("div", "id" :> sections[k].id, <<>>))>>
         \o sections[k].html
         \o <<EndTag(El("div", NoAttrs, <<>>))>>
         \o JoinedFrom(sections, k + 1)

Dividers(html) == Len(SelectSeq(html, LAMBDA t : t.kind = "void" /\ t.tag = "hr"))

C14_OneSectionPerContentDocument ==
  (LoadDone /\ bookContent # None) =>
    /\ SectionsOf(bookContent[1], Book, Ascending(Eligible(Book)))
    /\ bookContent[1].html = JoinedFrom(bookContent[1].sections, 1)

\* what holds of the code: the same for the content documents whose markup is
\* not blank, the others contributing nothing
SectionsOfNonBlankDocuments ==
  (LoadDone /\ bookContent # None) =>
    /\ SectionsOf(bookContent[1], Book, Ascending(Loadable(Book)))
    /\ bookContent[1].html = JoinedFrom(bookContent[1].sections, 1)
    /\ Dividers(bookContent[1].html)
         = (IF Loadable(Book) = {} THEN 0 ELSE Cardinality(Loadable(Book)) - 1)

\* two sections, of spine positions 1 and 2, with one divider
SectionsOfNonBlankDocumentsSeen ==
  /\ LoadDone
  /\ bookContent # None
  /\ Len(bookContent[1].sections) = 2
  /\ bookContent[1].sections[2].id = <<"sec-", "2">>
  /\ Dividers(bookContent[1].html) = 1

(***************************************************************************)
(* C15.  In per-chapter mode, on an opened book whose spine has at least   *)
(* one item, the current index is at every moment an integer from 0 to the *)
(* spine length minus one, whatever sequence of goPrev, goNext and         *)
(* goToHref was run.                                                       *)
(***************************************************************************)
SpineLength == Len(epubData[1].spine)

C15_IndexStaysInSpine ==
  (epubData # None /\ SpineLength >= 1) => isIndex(chapterIndex, SpineLength)

\* what holds of the code: the index stays in the spine when the persisted
\* position is no fraction, and goPrev at 0 and goNext at the last position
\* leave the index as it is
IndexStaysInSpineFromIntegerStart ==
  (epubData # None /\ SpineLength >= 1 /\ savedCfi.den = 1) =>
    isIndex(chapterIndex, SpineLength)

AdvanceClampsAtEnds ==
  [][/\ (goPrev /\ chapterIndex = Integer(0)) => chapterIndex' = Integer(0)
     /\ (goNext /\ epubData # None /\ SpineLength >= 1
           /\ chapterIndex = Integer(SpineLength - 1))
          => chapterIndex' = Integer(SpineLength - 1)]_vars

\* the last position was reached from the first by goNext
AdvanceSeen ==
  /\ epubData # None
  /\ SpineLength = 3
  /\ savedCfi = Undefined
  /\ chapterIndex = Integer(2)

(***************************************************************************)
(* C16.  goToHref(href) in per-chapter mode ignores the fragment           *)
(* identifier of href and sets the current index to the lowest spine       *)
(* position whose resolved path, its own fragment ignored, equals the      *)
(* rest; when no spine entry matches, the index, the displayed chapter and *)
(* the error stay as they are and no load is started.  With                *)
(* OEBPS/text/ch3.xhtml at position 4 of the spine,                        *)
(* goToHref('OEBPS/text/ch3.xhtml#section2') gives index 4.                *)
(***************************************************************************)
\* the text before the first "#"
RECURSIVE BeforeHash(_)
BeforeHash(path) ==
  IF path = <<>> \/ Head(path) = "#" THEN <<>> ELSE <<Head(path)>> \o BeforeHash(Tail(path))

\* the spine positions (zero-based) the href names
Named(spine, href) ==
  {i \in 0..(Len(spine) - 1) : BeforeHash(spine[i + 1].fullPath) = BeforeHash(href)}

Lowest(S) == CHOOSE x \in S : \A y \in S : x <= y

ScenarioPath == <<"OEBPS", "/", "text", "/", "ch3.xhtml">>
ScenarioSpine ==
  [k \in 1..6 |->
     [fullPath |-> IF k >= 5 THEN ScenarioPath
                   ELSE <<"OEBPS", "/", "text", "/", "front", ToString(k), ".xhtml">>]]

C16_JumpSetsLowestMatchOrNothing ==
  [][/\ jumpTarget([spine |-> ScenarioSpine], Integer(0),
                    ScenarioPath \o <<"#", "section2">>) = Integer(4)
     /\ epubData # None =>
          \A href \in Hrefs :
            /\ jumpTarget(epubData[1], chapterIndex, href)
                 = IF Named(epubData[1].spine, href) # {}
                   THEN Integer(Lowest(Named(epubData[1].spine, href)))
                   ELSE chapterIndex
            /\ goToHrefOf(href) =>
                 IF Named(epubData[1].spine, href) # {}
                 THEN chapterIndex' = Integer(Lowest(Named(epubData[1].spine, href)))
                 ELSE UNCHANGED <<chapterIndex, chapterHtml, epubError, chapterLoads>>]_vars

\* a jump took the Reader from position 0 to position 2: the load of position
\* 0 started by the open is still pending, that of position 2 was started, and
\* none was started for position 1 (it would be pending, or have settled and
\* run the parse effect again)
C16_Witness ==
  /\ epubData # None
  /\ parses = 1
  /\ chapterIndex = Integer(2)
  /\ chapterLoads = <<[index |-> 0], [index |-> 2]>>
  /\ LoadOf(1).ok
  /\ Named(epubData[1].spine, Chap2Path \o <<"#", "s2">>) = {2}

(***************************************************************************)
(* C17.  In per-chapter mode the index right after a successful open is    *)
(* the persisted position when that is a valid spine index (an integer i   *)
(* with 0 <= i < spine length), and 0 for every other persisted value:     *)
(* absent, a string, negative, too large, or a number that is no integer.  *)
(***************************************************************************)
ValidSpineIndex(saved, length) ==
  /\ saved.type = "number"
  /\ saved.den = 1
  /\ saved.num \in 0..(length - 1)

C17_OpenRestoresValidIndexElseZero ==
  [][(ParseSettled /\ ~unmounted /\ parseEpub(epubBuffer[1]).ok) =>
       chapterIndex' = IF ValidSpineIndex(savedCfi, Len(parseEpub(epubBuffer[1]).spine))
                       THEN savedCfi
                       ELSE Integer(0)]_vars

\* what holds of the code: the same for every persisted value but a fraction
\* within [0, spine length)
OpenRestoresIntegerElseZero ==
  [][(ParseSettled /\ ~unmounted /\ parseEpub(epubBuffer[1]).ok /\ savedCfi.den = 1) =>
       chapterIndex' = IF ValidSpineIndex(savedCfi, Len(parseEpub(epubBuffer[1]).spine))
                       THEN savedCfi
                       ELSE Integer(0)]_vars

\* the book was opened at the persisted position 1
OpenRestoredSeen ==
  /\ epubData # None
  /\ parses = 1
  /\ savedCfi = Integer(1)
  /\ chapterIndex = Integer(1)
  /\ chapterLoads = <<[index |-> 1]>>

(***************************************************************************)
(* C18.  Every update handed to onUpdateProgress carries a progress        *)
(* fraction in [0,1].  Per-chapter mode reports (index, (index + 1) /      *)
(* spine length) for an index of the spine; whole-book mode reports the    *)
(* scroll fraction scrollTop / (scrollHeight - clientHeight) clamped to    *)
(* [0,1], as position and as progress, and 0 when the content is not       *)
(* scrollable.                                                             *)
(***************************************************************************)
InUnit(f) == f.den > 0 /\ 0 <= f.num /\ f.num <= f.den

\* the fraction of [0,1] nearest to top / extent, and 0 without extent
Clamped(top, extent) ==
  IF extent <= 0 \/ top <= 0 THEN Integer(0)
  ELSE IF top >= extent THEN Integer(1)
  ELSE divide(top, extent)

C18_ReportedProgressIsInUnitInterval ==
  /\ persisted # None =>
       /\ epubData # None
       /\ persisted[1].cfi \in 0..(SpineLength - 1)
       /\ persisted[1].progress = [num |-> persisted[1].cfi + 1, den |-> SpineLength]
       /\ InUnit(persisted[1].progress)
  /\ emitted # None =>
       /\ InUnit(emitted[1].progress)
       /\ emitted[1].cfi = emitted[1].progress
       /\ \E top \in ScrollTops, extent \in Extents :
            emitted[1].progress = Clamped(top, extent)
  /\ \A top \in ScrollTops, extent \in Extents :
       clamp(scrollFraction(top, extent)) = Clamped(top, extent)

\* the whole-book Reader reported the scroll fraction 1/2
C18_Witness ==
  /\ bookContent # None
  /\ emitted = Some([cfi |-> Number(1, 2), progress |-> Number(1, 2)])

\* the per-chapter Reader reported the last chapter of three
PerChapterReportSeen ==
  /\ epubData # None
  /\ persisted = Some([cfi |-> 2, progress |-> [num |-> 3, den |-> 3]])

(***************************************************************************)
(* C19.  Every position the reader settles on is handed to                 *)
(* onUpdateProgress.  In whole-book mode, stated of the last value: once   *)
(* the Reader is closed, the progress value that scrolling left it on has  *)
(* been reported.                                                          *)
(***************************************************************************)
C19_LastProgressIsReported ==
  (closed /\ bookContent # None /\ progress # Integer(0)) =>
    /\ emitted # None
    /\ emitted[1].progress = progress

\* what holds of the code: while the Reader stays open, a value the timer was
\* set for is reported unless scrolling replaces it first
OpenReaderReportsProgress ==
  (saveTimer = Some(Number(1, 2)))
    ~> \/ emitted = Some([cfi |-> Number(1, 2), progress |-> Number(1, 2)])
       \/ progress # Number(1, 2)
       \/ closed

\* per-chapter mode: a chapter load that ended in the failed-to-load
\* placeholder is followed by a report of its index
PerChapterFailedLoadIsReported ==
  (NoLoadPending /\ parses - parsesPending <= 1 /\ ~LoadOf(chapterIndex.num).ok
     /\ chapterHtml = ChapterFailed) =>
    /\ persisted # None
    /\ persisted[1].cfi = chapterIndex.num

\* what holds of the code: a chapter load that succeeded is reported at once
PerChapterLoadIsReported ==
  [][\A k \in 1..Len(chapterLoads) :
       (ChapterLoadSettled /\ chapterLoads' = Remove(chapterLoads, k)
          /\ LoadOf(chapterLoads[k].index).ok
          /\ \A j \in 1..Len(chapterLoads) : chapterLoads[j] = chapterLoads[k])
         => persisted' = Some([cfi |-> chapterLoads[k].index,
                               progress |-> pctOf(epubData[1], chapterLoads[k].index)])]_vars

(***************************************************************************)
(* C20.  In whole-book mode the loading state covers the whole batch:      *)
(* while the promise of loadEntireBook is pending in an open Reader,       *)
(* loading is true and there is no book content to render; once it has     *)
(* settled, loading is false and exactly one of content and error is set;  *)
(* and, archive reads completing fairly, a pending load leads to that      *)
(* settled state unless the Reader is closed first.                        *)
(***************************************************************************)
LoadInFlight == ~closed /\ loadPending

LoadHasSettled == loads > 0 /\ ~loadPending

\* loading ? spinner : bookContent?.html
ContentRendered == ~loading /\ bookContent # None

SettledState ==
  /\ LoadHasSettled
  /\ ~loading
  /\ (bookContent # None) # (error # None)

C20_LoadingCoversTheWholeLoad ==
  /\ [](LoadInFlight => loading /\ bookContent = None /\ ~ContentRendered)
  /\ [](LoadHasSettled => SettledState)
  /\ (LoadInFlight ~> (SettledState \/ closed))

\* a load that ended with content and one that ended with an error
C20_Witness ==
  /\ SettledState
  /\ ContentRendered
  /\ error = None

LoadFailedSeen ==
  /\ SettledState
  /\ bookContent = None
  /\ error # None

(***************************************************************************)
(* C21.  In whole-book mode, selecting a table-of-contents link whose path *)
(* before '#' is the resolved path of a content document of the spine      *)
(* scrolls to the section of that spine item (the lowest such index);      *)
(* a link that names no spine item scrolls nowhere; in both cases the      *)
(* panel is closed afterwards.                                             *)
(***************************************************************************)
\* the positions of the content documents of the spine that the href names
NamedDocuments(zip, href) == Named(parseStructure(zip).spine, href) \cap Eligible(zip)

SectionId(i) == <<"sec-", ToString(i)>>

SelectedLinkScrolls(href, targets) ==
  /\ scrolledTo' = IF targets # {} THEN Some(SectionId(Lowest(targets))) ELSE scrolledTo
  /\ showToc' = FALSE

C21_TocLinkScrollsToItsSection ==
  [][bookContent # None =>
       \A href \in tocHrefs(bookContent[1].toc) :
         (SelectTocLink /\ scrollToHref(href)) =>
           /\ Named(parseStructure(Book).spine, href) = {} => scrolledTo' = scrolledTo
           /\ SelectedLinkScrolls(href, NamedDocuments(Book, href))]_vars

\* what holds of the code: the link scrolls to the lowest section among those
\* of the named documents that got one, and closes the panel
TocLinkScrollsToExistingSection ==
  [][bookContent # None =>
       \A href \in tocHrefs(bookContent[1].toc) :
         (SelectTocLink /\ scrollToHref(href)) =>
           SelectedLinkScrolls(href, NamedDocuments(Book, href) \cap Loadable(Book))]_vars

\* a link with a fragment was followed to the section of the second chapter,
\* and the panel is closed
TocLinkFollowedSeen ==
  /\ bookContent # None
  /\ scrolledTo = Some(SectionId(2))
  /\ ~showToc

(***************************************************************************)
(* C22.  Path resolution composes: for a base and two relative references  *)
(* a and b built from ordinary segments, '.' and '..', none of which pops  *)
(* past the root, resolving a against the base and b against the result    *)
(* gives the path that resolving dirOf(a) + b against the base gives.      *)
(***************************************************************************)
\* the segments of a path, and whether '..' never meets an empty stack
RECURSIVE StaysBelowRoot(_, _)
StaysBelowRoot(parts, depth) ==
  IF parts = <<>> THEN TRUE
  ELSE IF Head(parts) = DotDot THEN depth > 0 /\ StaysBelowRoot(Tail(parts), depth - 1)
  ELSE IF Head(parts) = Dot THEN StaysBelowRoot(Tail(parts), depth)
  ELSE StaysBelowRoot(Tail(parts), depth + 1)

NeverPopsPastRoot(path) ==
  StaysBelowRoot(SelectSeq(split(path, "/"), LAMBDA part : part # <<>>), 0)

Composed ==
  /\ pPc = "composed"
  /\ NeverPopsPastRoot(dirOf(pBase) \o pRef)
  /\ NeverPopsPastRoot(dirOf(pOut) \o qRef)
  /\ NeverPopsPastRoot(dirOf(pBase) \o dirOf(pRef) \o qRef)

C22_ResolutionComposes ==
  Composed => qOut = resolveHref(pBase, dirOf(pRef) \o qRef)

\* what holds of the code: the same when a ends in an ordinary segment, which
\* the second step then takes for a document name
LastSegmentOrdinary(path) ==
  LET parts == split(path, "/")
  IN parts[Len(parts)] \notin {<<>>, Dot, DotDot}

ResolutionComposesAfterDocument ==
  (Composed /\ LastSegmentOrdinary(pRef)) => qOut = resolveHref(pBase, dirOf(pRef) \o qRef)

\* base a/b, then a/../a, then ../a: both ways give a
ResolutionComposesAfterDocumentSeen ==
  /\ Composed
  /\ pBase = <<"a", "/", "b">>
  /\ pRef = <<"a", "/", ".", ".", "/", "a">>
  /\ pOut = <<"a", "/", "a">>
  /\ qRef = <<".", ".", "/", "a">>
  /\ qOut = <<"a">>

(***************************************************************************)
(* C23.  Every NavNode of the tree parseStructure returns, at every depth  *)
(* and from either navigation format, has a non-empty label: a point or    *)
(* link whose label text is absent, empty or only whitespace has the label *)
(* 'Untitled'.                                                             *)
(***************************************************************************)
RECURSIVE Labelled(_)
Labelled(items) ==
  \A k \in 1..Len(items) :
    /\ items[k].label # <<>>
    /\ Labelled(items[k].subitems)

C23_EveryNavNodeHasALabel == Parsed => Labelled(sResult.toc)

\* what holds of the code: the default is applied where the tree is rendered,
\* so no button of the contents panel has an empty text
RECURSIVE ButtonsHaveText(_)
ButtonsHaveText(items) ==
  \A k \in 1..Len(items) :
    /\ buttonText(items[k]) # <<>>
    /\ items[k].label = <<>> => buttonText(items[k]) = Untitled
    /\ ButtonsHaveText(items[k].subitems)

TocButtonsHaveText == Parsed => ButtonsHaveText(sResult.toc)

\* a tree with a nested node and a node whose label text is blank
TocButtonsHaveTextSeen ==
  /\ Parsed
  /\ \E k \in 1..Len(sResult.toc) : sResult.toc[k].label = <<>>
  /\ \E k \in 1..Len(sResult.toc) : sResult.toc[k].subitems # <<>>

(***************************************************************************)
(* C24.  When the archive has an entry for an image but reading it or      *)
(* encoding it as inline data fails, the normalization of the chapter      *)
(* still completes and the reference of that image is in the output what   *)
(* it was in the input: nothing else, such as the null or empty result of  *)
(* the failed encoding, is written to it.                                  *)
(***************************************************************************)
ImageEntryOf(ref) == file(nZip, LookupPath(ref))

ReadFails(ref) == hasFile(nZip, LookupPath(ref)) /\ ~ImageEntryOf(ref).readable

EncodingFails(ref) ==
  /\ hasFile(nZip, LookupPath(ref))
  /\ ImageEntryOf(ref).readable
  /\ ~ImageEntryOf(ref).encodable

\* a chapter whose own entry can be read was given to the normalizer
NormalizerCalled ==
  nPc # "idle" /\ hasFile(nZip, ChapterPath) /\ file(nZip, ChapterPath).readable

Referring(e) == Reference(e) # Null /\ ~skipped(Reference(e))

C24_FailedImageKeepsItsReference ==
  NormalizerCalled =>
    /\ nOut.ok
    /\ Len(OutputImages) = Len(InputImages)
    /\ \A k \in 1..Len(InputImages) :
         (Referring(InputImages[k])
            /\ (ReadFails(Reference(InputImages[k]))
                  \/ EncodingFails(Reference(InputImages[k])))) =>
           Reference(OutputImages[k]) = Reference(InputImages[k])

\* what holds of the code: an entry that cannot be read leaves the reference
\* as it was
ReadFailureKeepsReference ==
  NormalizerCalled =>
    /\ nOut.ok
    /\ Len(OutputImages) = Len(InputImages)
    /\ \A k \in 1..Len(InputImages) :
         (Referring(InputImages[k]) /\ ReadFails(Reference(InputImages[k]))) =>
           Reference(OutputImages[k]) = Reference(InputImages[k])

ReadFailureKeepsReferenceSeen ==
  /\ NormalizerCalled
  /\ \E k \in 1..Len(InputImages) :
       /\ Referring(InputImages[k])
       /\ ReadFails(Reference(InputImages[k]))
       /\ Reference(OutputImages[k]) = ImageRef

(***************************************************************************)
(* C25.  In per-chapter mode the archive is parsed once in a session, and  *)
(* the current index changes only by the restore that follows that parse,  *)
(* by goPrev and goNext, and by goToHref: the render that the Reader's own *)
(* progress report causes in the parent neither starts another parse nor   *)
(* puts the index back to the position saved when the book was opened.     *)
(***************************************************************************)
ParsedOnce == parses <= 1

\* the first parse settles
FirstRestore == parses = 1 /\ parsesPending = 1 /\ ParseSettled

IndexMovedOnlyByReader ==
  [][chapterIndex' # chapterIndex => (FirstRestore \/ goPrev \/ goNext \/ goToHref)]_vars

C25_ProgressReportRestartsNothing == []ParsedOnce /\ IndexMovedOnlyByReader

(***************************************************************************)
(* C27.  Once the Reader is unmounted (onBack) nothing more is handed to   *)
(* onUpdateProgress in that session, whatever was pending at that moment:  *)
(* a timer of the debounced save of the whole-book Reader, or a chapter    *)
(* load of the per-chapter Reader.                                         *)
(***************************************************************************)
\* what holds of the code: the cleanup of the save effect clears the timer
ClosedBookEmitsNothing == [][closed => emitted' = emitted]_vars

\* the chapter load effect has no cleanup
UnmountedReaderEmitsNothing == [][unmounted => persisted' = persisted]_vars

C27_NoUpdateAfterClose == ClosedBookEmitsNothing /\ UnmountedReaderEmitsNothing

(***************************************************************************)
(* C28.  From the empty library, after any sequence of addBook, updateBook *)
(* with a position and a progress, and removeBook, the paths of the books  *)
(* are pairwise distinct and lastRead is null or the path of a book of the *)
(* library.                                                                *)
(***************************************************************************)
PathsDistinct(books) ==
  \A i, j \in 1..Len(books) : i # j => books[i].path # books[j].path

Knows(books, path) == \E k \in 1..Len(books) : books[k].path = path

C28_PathsDistinctAndLastReadKnown ==
  /\ PathsDistinct(library.books)
  /\ library.lastRead = Null \/ Knows(library.books, library.lastRead)

\* the book read last was removed from a library that holds another book,
\* whose position had been updated
LastReadRemovedSeen ==
  /\ Len(library.books) = 1
  /\ library.lastRead = Null
  /\ library.books[1].progress # Integer(0)

(***************************************************************************)
(* C29.  addBook for a path the library knows leaves the book where it is  *)
(* in the list with its progress, currentCfi and addedAt, and overwrites   *)
(* only the metadata supplied and lastOpened; for a path the library does  *)
(* not know it puts a new entry first, with progress 0 and currentCfi      *)
(* null.  Either way lastRead becomes the path and no other book changes.  *)
(***************************************************************************)
Supplied == {"path", "title", "author", "cover"}

\* new differs from old at most in the fields named
SameBut(old, new, fields) ==
  /\ DOMAIN new = DOMAIN old
  /\ \A f \in DOMAIN old \ fields : new[f] = old[f]

HasFields(entry, book) == \A f \in Supplied : entry[f] = book[f]

AddedInPlace(book) ==
  /\ Len(library'.books) = Len(library.books)
  /\ \A k \in 1..Len(library.books) :
       IF library.books[k].path = book.path
       THEN /\ SameBut(library.books[k], library'.books[k], Supplied \cup {"lastOpened"})
            /\ HasFields(library'.books[k], book)
       ELSE library'.books[k] = library.books[k]

AddedFirst(book) ==
  /\ Len(library'.books) = Len(library.books) + 1
  /\ HasFields(library'.books[1], book)
  /\ library'.books[1].progress = Integer(0)
  /\ library'.books[1].currentCfi = NullValue
  /\ \A k \in 1..Len(library.books) : library'.books[k + 1] = library.books[k]

C29_AddBookKeepsWhatIsStored ==
  [][\A book \in OpenedBooks : \A t1, t2 \in 0..MaxClock :
       AddBookOf(book, t1, t2) =>
         /\ IF Knows(library.books, book.path) THEN AddedInPlace(book) ELSE AddedFirst(book)
         /\ library'.lastRead = book.path]_vars

\* a book that is second in the list was opened again after its position had
\* been updated, under the other title
OpenedAgainSeen ==
  /\ Len(library.books) = 2
  /\ library.lastRead = library.books[2].path
  /\ library.books[2].progress = Number(1, 2)
  /\ library.books[2].currentCfi = Integer(1)
  /\ library.books[2].title = "Second edition"
  /\ library.books[2].lastOpened > library.books[2].addedAt
  /\ library.books[1].lastOpened < library.books[2].lastOpened

(***************************************************************************)
(* C30.  updateBook(path, updates) changes only the fields named in        *)
(* updates, and only of the book with that path: the other books, the      *)
(* number and the order of the books and lastRead stay as they are, and    *)
(* for a path no book has the library stays as it is and gets no entry.    *)
(***************************************************************************)
C30_UpdateBookChangesOnlyTheNamedFields ==
  [][\A path \in Paths : \A updates \in ProgressUpdates :
       UpdateBookOf(path, updates) =>
         /\ Len(library'.books) = Len(library.books)
         /\ \A k \in 1..Len(library.books) :
              IF library.books[k].path = path
              THEN /\ SameBut(library.books[k], library'.books[k], DOMAIN updates)
                   /\ \A f \in DOMAIN updates : library'.books[k][f] = updates[f]
              ELSE library'.books[k] = library.books[k]
         /\ library'.lastRead = library.lastRead
         /\ ~Knows(library.books, path) => library' = library]_vars

\* of two books the one that was not read last had its position updated, and
\* the other has the position it was added with
OtherBookUpdatedSeen ==
  /\ Len(library.books) = 2
  /\ library.lastRead = library.books[1].path
  /\ library.books[2].progress = Number(1, 2)
  /\ library.books[2].currentCfi = Integer(1)
  /\ library.books[1].progress = Integer(0)
  /\ library.books[1].currentCfi = NullValue

(***************************************************************************)
(* C26.  In whole-book mode, opening a book whose stored progress is above *)
(* 0 and closing it again without a scroll leaves the stored position and  *)
(* progress of that book as they were: opening alone writes nothing over   *)
(* them.                                                                   *)
(***************************************************************************)
StoredPosition ==
  <<library.books[existing(library.books, CurrentPath)].currentCfi,
    library.books[existing(library.books, CurrentPath)].progress>>

C26_OpeningKeepsStoredPosition == [][StoredPosition' = StoredPosition]_vars

====
